---- MODULE Spec2Model ----
(***************************************************************************)
(* A state-machine model of the decision core of ilp-commander             *)
(* (src/states/auto.py): the staleness cache and its caching wrapper, the  *)
(* PID-style Controller, and the Auto state's process/run cycle.           *)
(*                                                                         *)
(* Units.  Wall-clock time is counted in ticks of 30 minutes, so the       *)
(* 60/120 minute cache defaults are 2 and 4 ticks, the controller's        *)
(* 30 minute regression span is 1 tick and its 3 hour window is 6 ticks.   *)
(* Python's None is the empty sequence <<>> and a present value v is <<v>>.*)
(***************************************************************************)
EXTENDS Integers, Sequences, FiniteSets, TLC

VARIABLES
    now,        \* the wall clock (arrow.now() / time.time()), in ticks
    cache,      \* RequestCache._cache : name -> <<>> | <<entry>>
    call,       \* what the last caching_wrap call saw and returned
    controller, \* the Controller object (Auto.controller)
    upd,        \* what the last Controller.update call saw and computed
    lastUpdate, \* the previous update call since construction or reset:
                \* <<>> or <<[at, absent]>> (its time, whether error was None)
    auto,       \* the Auto class attributes, the stored controller state
                \* and the configured COOLING_TIME_BUFFER
    proc,       \* what the last Auto.run cycle did, and how many have run
    fn          \* the last call of one of the module's functions on its
                \* own: its arguments and what it returned

cacheVars == <<cache, call>>
ctrlVars == <<controller, upd, lastUpdate>>
autoVars == <<auto, proc>>
vars == <<now, cache, call, controller, upd, lastUpdate, auto, proc, fn>>

(***************************************************************************)
(* Bounds of the model.                                                    *)
(***************************************************************************)
MaxTime == 5        \* the clock runs from 0 to MaxTime ticks
MaxAge == 1         \* a fetched reading is stamped at most MaxAge ticks ago
MaxSamples == 2     \* updates with a present error stop once past_errors
                    \* holds this many samples
MaxRuns == 2        \* Auto.run cycles in one behaviour
MaxClock == 7       \* the clock of the Auto cycles runs from 0 to MaxClock

\* The values a source can report (opaque to the cache).
TempVals == {10, 12}

None == <<>>
Some(v) == <<v>>
IsNone(o) == o = <<>>
Val(o) == o[1]

(***************************************************************************)
(* RequestCache and the caching decorator (auto.py 26-82).                 *)
(***************************************************************************)
CacheNames == {"fmi", "inside"}

\* config.CACHE_TIMES: "fmi" has no entry (the defaults apply), "inside"
\* is configured with both horizons.
CACHE_TIMES == [n \in CacheNames |->
    IF n = "inside" THEN [if_ok |-> <<1>>, if_failed |-> <<3>>]
                    ELSE [if_ok |-> <<>>, if_failed |-> <<>>]]

IfOkDefault == 2        \* 60 minutes
IfFailedDefault == 4    \* 120 minutes

if_ok(name) ==
    IF IsNone(CACHE_TIMES[name].if_ok) THEN IfOkDefault
    ELSE Val(CACHE_TIMES[name].if_ok)

if_failed(name) ==
    IF IsNone(CACHE_TIMES[name].if_failed) THEN IfFailedDefault
    ELSE Val(CACHE_TIMES[name].if_failed)

\* A (temp, ts) pair as a source function returns it; either part may be None.
Pair(temp, ts) == [temp |-> temp, ts |-> ts]

\* What one invocation of the wrapped function f can do: raise, return None,
\* or return a pair whose parts are each present or None.  A present
\* timestamp is the reading's own, up to MaxAge ticks before the fetch.
FOutcomes(t) ==
    {[kind |-> "raise", pair |-> Pair(None, None)],
     [kind |-> "none", pair |-> Pair(None, None)]}
    \cup
    {[kind |-> "pair", pair |-> Pair(tv, sv)] :
        tv \in {None} \cup {Some(v) : v \in TempVals},
        sv \in {None} \cup {Some(s) : s \in (t - MaxAge)..t}}

\* Python truthiness of an Optional[tuple]: None is falsy, a 2-tuple is
\* truthy whatever it holds.
Truthy(o) == ~IsNone(o)

RequestCache_put(c, name, stale_after_if_ok, stale_after_if_failed, content) ==
    [c EXCEPT ![name] = Some([stale_after_if_ok |-> stale_after_if_ok,
                              stale_after_if_failed |-> stale_after_if_failed,
                              content |-> content])]

\* Mutant of RequestCache_get: the expiry instant itself already counts as
\* stale (< for <=).
RequestCache_get_strict(c, name, stale_check, t) ==
    IF ~IsNone(c[name])
    THEN IF stale_check = "ok" /\ t < Val(c[name]).stale_after_if_ok
         THEN Some(Val(c[name]).content)
         ELSE IF stale_check = "failed" /\ t < Val(c[name]).stale_after_if_failed
         THEN Some(Val(c[name]).content)
         ELSE None
    ELSE None

RequestCache_get(c, name, stale_check, t) ==
    IF ~IsNone(c[name])
    THEN IF stale_check = "ok" /\ t <= Val(c[name]).stale_after_if_ok
         THEN Some(Val(c[name]).content)
         ELSE IF stale_check = "failed" /\ t <= Val(c[name]).stale_after_if_failed
         THEN Some(Val(c[name]).content)
         ELSE None
    ELSE None

\* The value of `result` after the try/except around f (lines 60-64).
ResultOfF(f) == IF f.kind = "pair" THEN Some(f.pair) ELSE None

\* `result and result[1] is not None` (line 65).
StoreCondition(result) == Truthy(result) /\ ~IsNone(Val(result).ts)

\* Mutant of caching_wrap: the cache is not consulted before f is invoked.
caching_wrap_always_fetch(c, name, f, t) ==
    LET result == ResultOfF(f) IN
    IF StoreCondition(result)
    THEN [ret |-> result,
          cache |-> RequestCache_put(c, name,
                       Val(Val(result).ts) + if_ok(name),
                       Val(Val(result).ts) + if_failed(name),
                       Val(result)),
          invoked |-> TRUE, wrote |-> TRUE]
    ELSE [ret |-> RequestCache_get(c, name, "failed", t),
          cache |-> c, invoked |-> TRUE, wrote |-> FALSE]

\* caching_wrap as a function of the cache, the clock and f's outcome:
\* the returned value, the cache afterwards, whether f was invoked and
\* whether put was called.  The clock is read once per call: the time f
\* itself takes is not modelled.
caching_wrap(c, name, f, t) ==
    LET hit == RequestCache_get(c, name, "ok", t) IN
    IF Truthy(hit)
    THEN [ret |-> hit, cache |-> c, invoked |-> FALSE, wrote |-> FALSE]
    ELSE LET result == ResultOfF(f) IN
         IF StoreCondition(result)
         THEN [ret |-> result,
               cache |-> RequestCache_put(c, name,
                            Val(Val(result).ts) + if_ok(name),
                            Val(Val(result).ts) + if_failed(name),
                            Val(result)),
               invoked |-> TRUE, wrote |-> TRUE]
         ELSE [ret |-> RequestCache_get(c, name, "failed", t),
               cache |-> c, invoked |-> TRUE, wrote |-> FALSE]

\* A result the specification calls usable: both value and timestamp present.
Usable(f) == f.kind = "pair" /\ ~IsNone(f.pair.temp) /\ ~IsNone(f.pair.ts)

NoF == [kind |-> "none", pair |-> Pair(None, None)]

\* The record of the last step: which operation ran and, for a cached call,
\* the name, f's outcome (when f ran), what was returned and the cache as it
\* was before the call.
NoCall == [op |-> "none", name |-> "", f |-> NoF, invoked |-> FALSE,
           wrote |-> FALSE, ret |-> None, before |-> None]

(***************************************************************************)
(* get_temp (auto.py 335-358) and the median it returns.  median is        *)
(* poller_helpers.median, which is modelled from its description and its   *)
(* test: the pairs ordered by value (then by timestamp), the middle one    *)
(* for an odd count, the average of the two central ones for an even       *)
(* count, (None, None) for none.  An average is taken to the unit (floor). *)
(***************************************************************************)
MAX_TS_DIFF_MINUTES == 2        \* 60 minutes

Abs(x) == IF x < 0 THEN -x ELSE x

\* Mutant of AcceptReading: the age is not taken in absolute value, so a
\* reading stamped in the future always passes.
AcceptReading_signed(result, max_ts_diff, t) ==
    /\ Truthy(result)
    /\ ~IsNone(Val(result).temp)
    /\ \/ IsNone(Val(result).ts)
       \/ t - Val(Val(result).ts) < max_ts_diff

\* Lines 346-354: whether the result of one source is appended to
\* temperatures; max_ts_diff in ticks.
AcceptReading(result, max_ts_diff, t) ==
    /\ Truthy(result)
    /\ ~IsNone(Val(result).temp)
    /\ \/ IsNone(Val(result).ts)
       \/ Abs(t - Val(Val(result).ts)) < max_ts_diff

RECURSIVE Temperatures(_, _, _)
\* The loop of lines 344-356 over the sources' results, in order.
Temperatures(results, max_ts_diff, t) ==
    IF results = <<>> THEN <<>>
    ELSE (IF AcceptReading(Head(results), max_ts_diff, t)
          THEN <<Val(Head(results))>> ELSE <<>>)
         \o Temperatures(Tail(results), max_ts_diff, t)

\* Whether pair a sorts before pair b or with it: by value, then by
\* timestamp, an absent timestamp first.
PairLeq(a, b) ==
    \/ Val(a.temp) < Val(b.temp)
    \/ /\ Val(a.temp) = Val(b.temp)
       /\ \/ IsNone(a.ts)
          \/ ~IsNone(b.ts) /\ Val(a.ts) <= Val(b.ts)

RECURSIVE InsertPair(_, _)
InsertPair(x, sorted) ==
    IF sorted = <<>> THEN <<x>>
    ELSE IF PairLeq(x, Head(sorted)) THEN <<x>> \o sorted
    ELSE <<Head(sorted)>> \o InsertPair(x, Tail(sorted))

RECURSIVE SortPairs(_)
SortPairs(pairs) ==
    IF pairs = <<>> THEN <<>> ELSE InsertPair(Head(pairs), SortPairs(Tail(pairs)))

Average(a, b) == (a + b) \div 2

\* poller_helpers.median on (value, timestamp) pairs.
median(temperatures) ==
    LET sorted == SortPairs(temperatures)
        n == Len(sorted)
        lo == sorted[n \div 2]
        hi == sorted[n \div 2 + 1]
    IN  IF n = 0 THEN Pair(None, None)
        ELSE IF n % 2 = 1 THEN hi
        ELSE Pair(Some(Average(Val(lo.temp), Val(hi.temp))),
                  IF IsNone(lo.ts) \/ IsNone(hi.ts) THEN None
                  ELSE Some(Average(Val(lo.ts), Val(hi.ts))))

\* max_ts_diff as get_temp resolves it (lines 339-340).
MaxTsDiff(max_ts_diff) ==
    IF IsNone(max_ts_diff) THEN MAX_TS_DIFF_MINUTES ELSE Val(max_ts_diff)

\* Mutant of get_temp: the first accepted reading is returned, not the
\* median.
get_temp_first(results, max_ts_diff, t) ==
    LET temperatures == Temperatures(results, MaxTsDiff(max_ts_diff), t) IN
    IF temperatures = <<>> THEN Pair(None, None) ELSE Head(temperatures)

\* get_temp at time t, given what each source function returned.
get_temp(results, max_ts_diff, t) ==
    median(Temperatures(results, MaxTsDiff(max_ts_diff), t))

(***************************************************************************)
(* Controller (auto.py 600-713).                                           *)
(*                                                                         *)
(* Errors are integers in units of 0.025 degrees, so that the gate's       *)
(* -0.05 degrees/hour is -1 unit per tick.  The integral and the output    *)
(* are in hundredths of a heating degree.  kp, ki, kd come from config;    *)
(* the model takes kp = 2, ki = 1/4500 and kd = 720, which in these units  *)
(* are the integer factors Kp, Ki and Kd below.  Decimal arithmetic is     *)
(* exact here: the slope is kept as a fraction num/den with den > 0.       *)
(***************************************************************************)
Kp == 5     \* p_term = Kp * error
Ki == 1     \* integral += Ki * error * delta_time
Kd == 1     \* d_term = Kd * slope

ThreeHours == 6     \* Decimal(3600) * Decimal(3) seconds
MinTime == 1        \* Decimal(60 * 30) seconds
SlopeLimit == -1    \* Decimal('-0.05') degrees per hour

\* Controller.__init__
Controller_init ==
    [i_high_limit |-> 0, i_low_limit |-> 0, integral |-> 0,
     current_time |-> None, past_errors |-> <<>>]

\* Controller.reset_past_errors
Controller_reset_past_errors(c) == [c EXCEPT !.past_errors = <<>>]

\* A reset that forgets the update time and the samples and keeps the
\* integral.
Controller_reset_keep_integral(c) ==
    Controller_reset_past_errors([c EXCEPT !.current_time = None])

\* Controller.reset
Controller_reset(c) ==
    Controller_reset_past_errors([c EXCEPT !.integral = 0, !.current_time = None])

\* Controller.is_reset
Controller_is_reset(c) == IsNone(c.current_time)

Controller_set_i_low_limit(c, value) == [c EXCEPT !.i_low_limit = value]

Controller_set_i_high_limit(c, value) == [c EXCEPT !.i_high_limit = value]

\* Controller._update_past_errors: append (time, error), keep the samples
\* not older than three hours.
Controller_update_past_errors(pe, error, t) ==
    SelectSeq(Append(pe, <<t, error>>), LAMBDA p : p[1] >= t - ThreeHours)

RECURSIVE SumXY(_), SumX(_), SumY(_), SumX2(_)
SumXY(pe) == IF pe = <<>> THEN 0 ELSE Head(pe)[1] * Head(pe)[2] + SumXY(Tail(pe))
SumX(pe) == IF pe = <<>> THEN 0 ELSE Head(pe)[1] + SumX(Tail(pe))
SumY(pe) == IF pe = <<>> THEN 0 ELSE Head(pe)[2] + SumY(Tail(pe))
SumX2(pe) == IF pe = <<>> THEN 0 ELSE Head(pe)[1] * Head(pe)[1] + SumX2(Tail(pe))

Zero == [num |-> 0, den |-> 1]

\* The sign-normalised fraction n/d (d # 0).
Frac(n, d) == IF d < 0 THEN [num |-> -n, den |-> -d] ELSE [num |-> n, den |-> d]

\* Controller._past_error_slope_per_second, in error units per tick.
Controller_past_error_slope(pe) ==
    IF pe # <<>> /\ pe[Len(pe)][1] - pe[1][1] < MinTime
    THEN Zero
    ELSE LET n == Len(pe)
             divider == n * SumX2(pe) - SumX(pe) * SumX(pe)
         IN  IF divider = 0 THEN Zero
             ELSE Frac(n * SumXY(pe) - SumX(pe) * SumY(pe), divider)

\* Mutant of IntegralGate: a falling trend blocks accumulation only for a
\* negative error (the two slope tests swapped).
IntegralGate_swapped(error, slope) ==
    \/ error > 0 /\ slope.num <= 0
    \/ error < 0 /\ slope.num >= SlopeLimit * slope.den

\* Mutant of IntegralGate: the trend is not consulted at all.
IntegralGate_ignore_slope(error, slope) == error # 0

\* Line 680: error > 0 and error_slope_per_hour >= Decimal('-0.05') or
\* error < 0 and error_slope_per_hour <= 0.
IntegralGate(error, slope) ==
    \/ error > 0 /\ slope.num >= SlopeLimit * slope.den
    \/ error < 0 /\ slope.num <= 0

\* Lines 676-685: the integral before clamping.
Accumulate(c, error, slope, t) ==
    IF ~IsNone(c.current_time)
    THEN LET delta_time == t - Val(c.current_time) IN
         IF IntegralGate(error, slope)
         THEN c.integral + Ki * error * delta_time
         ELSE c.integral
    ELSE c.integral

\* Mutant of ClampIntegral: only the high limit is enforced.
ClampIntegral_high_only(c, v) ==
    IF v > c.i_high_limit THEN c.i_high_limit ELSE v

\* Lines 689-693: the clamp to [i_low_limit, i_high_limit].
ClampIntegral(c, v) ==
    IF v > c.i_high_limit THEN c.i_high_limit
    ELSE IF v < c.i_low_limit THEN c.i_low_limit
    ELSE v

\* Mutant of NextCurrentTime: a call with an absent error does not move the
\* controller's clock.
NextCurrentTime_skip_absent(c, error, t) ==
    IF IsNone(error) THEN c.current_time ELSE Some(t)

\* Line 687: self.current_time = new_time.
NextCurrentTime(c, error, t) == Some(t)

\* Controller.update(error, error_without_hysteresis) at time t: the
\* controller afterwards, the output as a fraction, and the values the call
\* went through.
Controller_update(c, error, error_without_hysteresis, t) ==
    LET e == IF IsNone(error) THEN 0 ELSE Val(error)
        pe == IF IsNone(error) THEN c.past_errors
              ELSE Controller_update_past_errors(
                       c.past_errors, Val(error_without_hysteresis), t)
        p_term == Kp * e
        slope == Controller_past_error_slope(pe)
        acc == Accumulate(c, e, slope, t)
        c1 == [c EXCEPT !.past_errors = pe, !.current_time = NextCurrentTime(c, error, t)]
        i_term == ClampIntegral(c1, acc)
    IN  [c |-> [c1 EXCEPT !.integral = i_term],
         output |-> [num |-> (p_term + i_term) * slope.den + Kd * slope.num,
                     den |-> slope.den],
         error |-> e, slope |-> slope, acc |-> acc,
         delta_time |-> IF IsNone(c.current_time) THEN None
                        ELSE Some(t - Val(c.current_time))]

\* hysteresis(): Decimal('0.5') degrees, in error units.
hysteresis == 20

Max2(a, b) == IF a >= b THEN a ELSE b
Min2(a, b) == IF a <= b THEN a ELSE b

\* Mutant of get_error: the band is taken off both sides of the error.
get_error_both_sides(target_inside_temp, inside_temp, hyst) ==
    IF ~IsNone(inside_temp)
    THEN LET error == target_inside_temp - Val(inside_temp)
         IN  Some(error - Max2(Min2(error, hyst), -hyst))
    ELSE None

\* get_error(target_inside_temp, inside_temp, hyst): None without an inside
\* reading, else target - inside less max(min(error, 0), -hyst).
get_error(target_inside_temp, inside_temp, hyst) ==
    IF ~IsNone(inside_temp)
    THEN LET error == target_inside_temp - Val(inside_temp)
         IN  Some(error - Max2(Min2(error, 0), -hyst))
    ELSE None

\* The arguments update is called with (lines 849-861): the error with the
\* hysteresis band and without it, for the same target and inside reading;
\* RawErrors are the values of target - inside tried.
RawErrors == {-22, -21, 0, 1, 3}
UpdateArgs ==
    {[error |-> get_error(0, i, hysteresis), ewh |-> get_error(0, i, 0)] :
        i \in {None} \cup {Some(-r) : r \in RawErrors}}

\* The integral limits Auto.process sets (lines 852-859), in hundredths:
\* Decimal(8) - Decimal('0.01'), Decimal(18) + Decimal('0.01'), and
\* degrees_per_hour_slope * kd = (0.1 / 3600) * 720.
lowest_heating_value == 799
highest_heating_value == 1801
SlopeAllowance == 2

\* Lines 858-859.
SetProcessLimits(c) ==
    Controller_set_i_high_limit(
        Controller_set_i_low_limit(c, lowest_heating_value - SlopeAllowance),
        highest_heating_value + SlopeAllowance)

\* The integrals the state store can hold when Auto.load_state reads it.
SavedIntegrals == {0, 1800}

NoUpdate == [op |-> "none", error |-> 0, pre |-> 0, acc |-> 0,
             delta_time |-> None, slope |-> Zero, output |-> Zero, prev |-> None]

(***************************************************************************)
(* Auto.process and what it calls (auto.py 321-325, 361-597, 716-720,      *)
(* 808-889).                                                               *)
(*                                                                         *)
(* Temperatures are integers in units of 0.025 degrees (Deg(x) is x        *)
(* degrees).  Values that config.py sets are parameters of the model:      *)
(* ALLOWED_MINIMUM_INSIDE_TEMP = 5, MINIMUM_INSIDE_TEMP = 10 and           *)
(* COOLING_RATE_PER_HOUR_PER_TEMPERATURE_DIFF = 0.25, i.e. 1/8 per tick.   *)
(* A mean and a temperature drop are taken to the unit (floor).            *)
(***************************************************************************)
UnitsPerDegree == 40
Deg(x) == UnitsPerDegree * x

Hour == 2                               \* ticks
ALLOWED_MINIMUM_INSIDE_TEMP == 200      \* Deg(5)
MINIMUM_INSIDE_TEMP == 400              \* Deg(10)
COOLING_RATE_DIVISOR == 8               \* the rate is 1/8 per tick
PREDEFINED_OUTSIDE_TEMP == -400         \* Decimal(-10)

TempTs(temp, ts) == [temp |-> temp, ts |-> ts]

RECURSIVE SumTemps(_)
SumTemps(temps) == IF temps = <<>> THEN 0 ELSE Head(temps).temp + SumTemps(Tail(temps))

\* statistics.mean of the temperatures of a non-empty list of TempTs.
MeanTemp(temps) == SumTemps(temps) \div Len(temps)

\* temps[:n] for n >= 0.
Prefix(temps, n) == SubSeq(temps, 1, Min2(n, Len(temps)))

\* forecast_mean_temperature(forecast, hours), hours given in ticks:
\* None without forecast points; mean() raises StatisticsError on an empty
\* slice.
forecast_mean_temperature(forecast, hours) ==
    IF ~IsNone(forecast) /\ Val(forecast).temps # <<>>
    THEN LET slice == Prefix(Val(forecast).temps, hours \div Hour) IN
         IF slice = <<>>
         THEN [raised |-> TRUE, value |-> None]
         ELSE [raised |-> FALSE, value |-> Some(MeanTemp(slice))]
    ELSE [raised |-> FALSE, value |-> None]

DefaultMeanHours == 48                  \* hours = 24, in ticks

\* config.COOLING_TIME_BUFFER: a number of hours or a function of the
\* outside temperature.  The configurations tried: a constant 1.5 hours,
\* and a function that shrinks to nothing in mild weather.
BufferConfigs ==
    {[kind |-> "const", hours |-> 3],
     [kind |-> "fn", hours |-> 0, name |-> "linear"]}

\* The configured buffer function, from a temperature to ticks: half an
\* hour for each degree below -4.
BufferFunction(name, temp) == Max2(0, (Deg(-4) - temp) \div UnitsPerDegree)

InitialBuffer == 40                     \* Decimal(20) hours
BufferIterations == 3

RECURSIVE BufferPasses(_, _, _, _, _)
\* The body of `for i in range(3)` (lines 477-482), passes left to go;
\* calls counts the invocations of the buffer function.
BufferPasses(cfg, outside_temp, forecast, buffer, left) ==
    IF left = 0 THEN [raised |-> FALSE, hours |-> buffer, calls |-> BufferIterations]
    ELSE LET fm == forecast_mean_temperature(forecast, buffer) IN
         IF fm.raised
         THEN [raised |-> TRUE, hours |-> buffer, calls |-> BufferIterations - left]
         ELSE BufferPasses(cfg, outside_temp, forecast,
                  BufferFunction(cfg.name,
                      IF IsNone(fm.value) THEN outside_temp ELSE Val(fm.value)),
                  left - 1)

\* cooling_time_buffer_resolved, in ticks.
cooling_time_buffer_resolved(cfg, outside_temp, forecast) ==
    IF cfg.kind = "const"
    THEN [raised |-> FALSE, hours |-> cfg.hours, calls |-> 0]
    ELSE BufferPasses(cfg, outside_temp, forecast, InitialBuffer, BufferIterations)

RECURSIVE BuildValidForecast_all(_, _)
\* A valid_forecast that takes every forecast point as it comes.
BuildValidForecast_all(valid, temps) ==
    IF temps = <<>> THEN valid
    ELSE BuildValidForecast_all(Append(valid, Head(temps)), Tail(temps))

RECURSIVE BuildValidForecast(_, _)
\* Lines 382-385: append each forecast point later than the last one kept.
BuildValidForecast(valid, temps) ==
    IF temps = <<>> THEN valid
    ELSE BuildValidForecast(
             IF Head(temps).ts > valid[Len(valid)].ts
             THEN Append(valid, Head(temps)) ELSE valid,
             Tail(temps))

Reversed(q) == [i \in 1..Len(q) |-> q[Len(q) + 1 - i]]

ColdLimit == -680                       \* Deg(-17)

\* temp_drop for one step (lines 408-414, 437-447), to the unit.
TempDrop(outside, inside, hours) ==
    LET outside_inside_diff == outside - inside IN
    ((IF outside <= ColdLimit THEN 2 ELSE 1) * outside_inside_diff * hours)
        \div COOLING_RATE_DIVISOR

\* A while-loop body that leaves the temperature where the drop put it.
PreForecastStep_unfloored(iteration_inside_temp, iteration_ts, start_ts, outside_after_forecast, allowed_min_inside_temp) ==
    LET hours_to_forecast_start == iteration_ts - start_ts
        this_iteration_hours == Min2(Hour, hours_to_forecast_start)
    IN  [temp |-> iteration_inside_temp - TempDrop(outside_after_forecast,
                      iteration_inside_temp, this_iteration_hours),
         ts |-> iteration_ts - this_iteration_hours,
         hours |-> this_iteration_hours]

\* A while-loop body that goes back to the start of the forecast at once.
PreForecastStep_whole(iteration_inside_temp, iteration_ts, start_ts, outside_after_forecast, allowed_min_inside_temp) ==
    LET hours_to_forecast_start == iteration_ts - start_ts
        this_iteration_hours == hours_to_forecast_start
        t1 == iteration_inside_temp - TempDrop(outside_after_forecast,
                  iteration_inside_temp, this_iteration_hours)
    IN  [temp |-> Max2(t1, allowed_min_inside_temp),
         ts |-> iteration_ts - this_iteration_hours,
         hours |-> this_iteration_hours]

\* The body of the while loop, lines 405-430: the temperature and the time
\* after it, and the hours it went back.
PreForecastStep(iteration_inside_temp, iteration_ts, start_ts, outside_after_forecast, allowed_min_inside_temp) ==
    LET hours_to_forecast_start == iteration_ts - start_ts
        this_iteration_hours == Min2(Hour, hours_to_forecast_start)
        t1 == iteration_inside_temp - TempDrop(outside_after_forecast,
                  iteration_inside_temp, this_iteration_hours)
    IN  [temp |-> Max2(t1, allowed_min_inside_temp),
         ts |-> iteration_ts - this_iteration_hours,
         hours |-> this_iteration_hours]

RECURSIVE PreForecastPhase(_, _, _, _, _)
\* The while loop of lines 404-430.
PreForecastPhase(iteration_inside_temp, iteration_ts, start_ts, outside_after_forecast, allowed_min_inside_temp) ==
    IF iteration_ts > start_ts
    THEN LET s == PreForecastStep(iteration_inside_temp, iteration_ts, start_ts,
                      outside_after_forecast, allowed_min_inside_temp)
         IN  PreForecastPhase(s.temp, s.ts, start_ts,
                 outside_after_forecast, allowed_min_inside_temp)
    ELSE [temp |-> iteration_inside_temp, ts |-> iteration_ts]

\* The body of the for loop, lines 435-464, for the point fc.
ForecastStep(iteration_inside_temp, iteration_ts, fc, allowed_min_inside_temp) ==
    LET this_iteration_hours == iteration_ts - fc.ts
        t1 == iteration_inside_temp -
                  TempDrop(fc.temp, iteration_inside_temp, this_iteration_hours)
    IN  [temp |-> Max2(t1, allowed_min_inside_temp), ts |-> fc.ts,
         hours |-> this_iteration_hours]

RECURSIVE ForecastPhase(_, _, _, _)
\* The for loop of lines 434-464; the filter is evaluated lazily against
\* the current iteration_ts.
ForecastPhase(iteration_inside_temp, iteration_ts, rest, allowed_min_inside_temp) ==
    IF rest = <<>> THEN iteration_inside_temp
    ELSE LET fc == Head(rest) IN
         IF fc.ts <= iteration_ts
         THEN LET s == ForecastStep(iteration_inside_temp, iteration_ts, fc,
                           allowed_min_inside_temp)
              IN  ForecastPhase(s.temp, s.ts, Tail(rest), allowed_min_inside_temp)
         ELSE ForecastPhase(iteration_inside_temp, iteration_ts, Tail(rest),
                            allowed_min_inside_temp)

\* Mutant of TargetResult: the simulated temperature is returned as it is.
TargetResult_unfloored(iteration_inside_temp, minimum_inside_temp) ==
    iteration_inside_temp

\* Line 468.
TargetResult(iteration_inside_temp, minimum_inside_temp) ==
    Max2(iteration_inside_temp, minimum_inside_temp)

\* target_inside_temperature at time t: raises when the buffer resolution
\* does, else the target.
target_inside_temperature(outside_temp_ts, allowed_min_inside_temp, minimum_inside_temp, forecast, cooling_time_buffer, t) ==
    LET b == cooling_time_buffer_resolved(cooling_time_buffer,
                                          outside_temp_ts.temp, forecast)
    IN  IF b.raised THEN [raised |-> TRUE, value |-> 0]
        ELSE LET valid_forecast ==
                     BuildValidForecast(<<outside_temp_ts>>,
                         IF IsNone(forecast) THEN <<>> ELSE Val(forecast).temps)
                 reversed_forecast == Reversed(valid_forecast)
                 outside_after_forecast == MeanTemp(reversed_forecast)
                 pre == PreForecastPhase(allowed_min_inside_temp, t + b.hours,
                            reversed_forecast[1].ts, outside_after_forecast,
                            allowed_min_inside_temp)
                 final == ForecastPhase(pre.temp, pre.ts, reversed_forecast,
                                        allowed_min_inside_temp)
             IN  [raised |-> FALSE, value |-> TargetResult(final, minimum_inside_temp)]

\* make_forecast: with a valid clock only the points after now are kept.
make_forecast(temps, ts, valid_time, t) ==
    [temps |-> SelectSeq(temps, LAMBDA p : ~valid_time \/ p.ts > t), ts |-> ts]

\* get_forecast, from the fused forecast (f_temps, f_ts): the forecast
\* object or None, and its 24 hour mean.
get_forecast(fused, valid_time, t) ==
    LET forecast ==
            IF ~IsNone(fused.temp) /\ Val(fused.temp) # <<>> /\ ~IsNone(fused.ts)
            THEN Some(make_forecast(Val(fused.temp), Val(fused.ts), valid_time, t))
            ELSE None
    IN  [forecast |-> forecast,
         mean_forecast |-> forecast_mean_temperature(forecast, DefaultMeanHours).value]

\* A get_outside that tests the forecast mean for truth, so that a mean of
\* zero counts as absent.
get_outside_truthy_mean(fused, mean_forecast, t) ==
    IF IsNone(fused.temp)
    THEN [outside |-> TempTs(IF ~IsNone(mean_forecast) /\ Val(mean_forecast) # 0
                             THEN Val(mean_forecast)
                             ELSE PREDEFINED_OUTSIDE_TEMP, t),
          valid_outside |-> FALSE,
          info |-> <<"Outside temperature">>]
    ELSE [outside |-> TempTs(Val(fused.temp), Val(fused.ts)),
          valid_outside |-> TRUE,
          info |-> <<"Outside temperature">>]

\* get_outside, from the fused outside reading.
get_outside(fused, mean_forecast, t) ==
    IF IsNone(fused.temp)
    THEN [outside |-> TempTs(IF ~IsNone(mean_forecast) THEN Val(mean_forecast)
                             ELSE PREDEFINED_OUTSIDE_TEMP, t),
          valid_outside |-> FALSE,
          info |-> IF ~IsNone(mean_forecast)
                   THEN <<"Outside temperature", "Using mean forecast as outside temp">>
                   ELSE <<"Outside temperature", "Using predefined outside temperature">>]
    ELSE [outside |-> TempTs(Val(fused.temp), Val(fused.ts)),
          valid_outside |-> TRUE,
          info |-> <<"Outside temperature">>]

\* math.log(rh) in thousandths, for the two humidities process asks for.
LogMilli(rh) == IF rh = 800 THEN -223 ELSE -357

MagnusA == 243040       \* Decimal('243.04'), in thousandths
MagnusB == 17625        \* Decimal('17.625'), in thousandths
MilliPerUnit == 25

\* estimate_temperature_with_rh(dew_point, rh), rh in thousandths, computed
\* in thousandths of a degree: a TypeError for a None dew point (Decimal
\* times None), a division by zero where a denominator vanishes.
estimate_temperature_with_rh(dew_point, rh) ==
    IF IsNone(dew_point) THEN [raised |-> TRUE, exc |-> "TypeError", value |-> 0]
    ELSE LET dp == MilliPerUnit * Val(dew_point)
             rh_log == LogMilli(rh)
         IN  IF MagnusA + dp = 0
             THEN [raised |-> TRUE, exc |-> "DivisionByZero", value |-> 0]
             ELSE LET g == (MagnusB * dp) \div (MagnusA + dp) IN
                  IF MagnusB + rh_log - g = 0
                  THEN [raised |-> TRUE, exc |-> "DivisionByZero", value |-> 0]
                  ELSE [raised |-> FALSE, exc |-> "",
                        value |-> ((MagnusA * (g - rh_log)) \div (MagnusB + rh_log - g))
                                     \div MilliPerUnit]

\* Commands: the heating levels in degrees, off being level 0, ordered by
\* level.
CommandLevels == {0, 8, 10, 16, 18, 20, 22, 24}
Commands_off == 0
Commands_heat8 == 8
HundredthsPerLevel == 100

SetMin(S) == CHOOSE x \in S : \A y \in S : x <= y
SetMax(S) == CHOOSE x \in S : \A y \in S : x >= y

\* Commands.command_from_controller(value), value a fraction of hundredths:
\* the smallest level whose output is at least the value, the highest level
\* where none is.
command_from_controller(value) ==
    LET enough == {l \in CommandLevels : l * HundredthsPerLevel * value.den >= value.num}
    IN  IF enough = {} THEN SetMax(CommandLevels) ELSE SetMin(enough)

ControlScale == 1600                    \* UnitsPerDegree squared
ControlMin == 800                       \* Decimal(8)
ControlMax == 2400                      \* Decimal(24)

\* temp_control_without_inside_temp: 3 + 0.03 diff^2 + 0.2 diff, held to
\* [8, 24], as a fraction of hundredths.
temp_control_without_inside_temp(outside_temp, target_inside_temp) ==
    LET d == outside_temp - target_inside_temp
        diff == IF d < 0 THEN -d ELSE d
        control == 300 * ControlScale + 3 * diff * diff + 20 * UnitsPerDegree * diff
    IN  [num |-> Max2(Min2(control, ControlMax * ControlScale), ControlMin * ControlScale),
         den |-> ControlScale]

\* A get_next_command that turns off only in summer with an unreliable
\* outside estimate, and otherwise always follows the heuristic.
get_next_command_off_in_summer_only(valid_time, in_summer, inside_temp, outside_temp, valid_outside, target_inside_temp, target_from_controller) ==
    IF ~IsNone(inside_temp)
    THEN command_from_controller(target_from_controller)
    ELSE IF ~valid_outside /\ valid_time /\ in_summer
    THEN Commands_off
    ELSE command_from_controller(
             temp_control_without_inside_temp(outside_temp, target_inside_temp))

\* get_next_command; in_summer stands for 5 <= month <= 9.
get_next_command(valid_time, in_summer, inside_temp, outside_temp, valid_outside, target_inside_temp, target_from_controller) ==
    IF ~IsNone(inside_temp)
    THEN command_from_controller(target_from_controller)
    ELSE LET is_summer == valid_time /\ in_summer IN
         IF (valid_outside /\ outside_temp < target_inside_temp)
                \/ (~valid_outside /\ ~is_summer)
         THEN command_from_controller(
                  temp_control_without_inside_temp(outside_temp, target_inside_temp))
         ELSE Commands_off

\* log_status: the status list in the order it is built.
log_status(valid_time, forecast, valid_outside, inside_temp, target_inside_temp, controller_i_max) ==
    LET status ==
            (IF ~valid_time THEN <<"no valid time">> ELSE <<>>)
            \o (IF IsNone(forecast) THEN <<"no forecast">> ELSE <<>>)
            \o (IF ~valid_outside THEN <<"no outside temp">> ELSE <<>>)
            \o (IF IsNone(inside_temp) THEN <<"no inside temp">>
                ELSE IF Val(inside_temp) <= target_inside_temp - Deg(1)
                THEN <<"inside is 1 degree or more below target">> ELSE <<>>)
            \o (IF controller_i_max THEN <<"controller i term at max">> ELSE <<>>)
    IN  IF status = <<>> THEN <<"ok">> ELSE status

\* Auto.handle_status: the status, whether an email goes out, and the new
\* last_status_email_sent.
Auto_handle_status(last_sent, c, valid_time, forecast, valid_outside, inside_temp, target_inside_temp) ==
    LET status == log_status(valid_time, forecast, valid_outside, inside_temp,
                             target_inside_temp, c.integral >= c.i_high_limit)
    IN  [status |-> status,
         emailed |-> last_sent # Some(status) /\ ~IsNone(last_sent),
         last_status_email_sent |-> Some(status)]

FreezeLimit == 40                       \* outside_temp_ts.temp < 1

\* A cycle that raised at `where`, having got as far as controller c.
Raised(exc, where, c, last_sent, extra_info) ==
    [raised |-> TRUE, exc |-> exc, where |-> where, controller |-> c,
     last_status_email_sent |-> last_sent, emailed |-> FALSE,
     next_command |-> None, extra_info |-> extra_info, target |-> None,
     forced |-> FALSE, status |-> <<>>, command |-> None]

\* An end of Auto.process that logs the status before the controller step.
Auto_process_control_status_early(c, last_command, last_sent, in, forecast, out, dew_point, target_inside_temp, info, t) ==
    LET hyst == hysteresis
        inside_temp == in.inside
        error == get_error(target_inside_temp, inside_temp, hyst)
        error_without_hysteresis == get_error(target_inside_temp, inside_temp, 0)
        u == Controller_update(SetProcessLimits(c), error, error_without_hysteresis, t)
        info1 == info \o <<"Target inside temperature", "Hysteresis",
                           "Inside temperature", "Controller">>
        command == get_next_command(in.valid_time, in.summer, inside_temp,
                       out.outside.temp, out.valid_outside, target_inside_temp, u.output)
        checked == out.valid_outside /\ ~IsNone(last_command)
                       /\ out.outside.temp < FreezeLimit
        temp_with_70_rh == estimate_temperature_with_rh(dew_point, 700)
        forced == checked /\ ~temp_with_70_rh.raised
                      /\ out.outside.temp < temp_with_70_rh.value
                      /\ last_command # Some(Commands_off)
        hs == Auto_handle_status(last_sent, u.c, in.valid_time, forecast,
                  out.valid_outside, inside_temp, target_inside_temp)
    IN  IF checked /\ temp_with_70_rh.raised
        THEN Raised(temp_with_70_rh.exc, "freeze protection", u.c, last_sent, info1)
        ELSE [raised |-> FALSE, exc |-> "", where |-> "", controller |-> u.c,
              last_status_email_sent |-> hs.last_status_email_sent,
              emailed |-> hs.emailed,
              next_command |-> Some(IF forced THEN Max2(Commands_heat8, command)
                                    ELSE command),
              extra_info |-> info \o <<"Status", "Target inside temperature",
                                        "Hysteresis", "Inside temperature", "Controller">>
                                   \o (IF forced THEN <<"Forcing heating">> ELSE <<>>),
              target |-> Some(target_inside_temp), forced |-> forced,
              status |-> hs.status, command |-> Some(command)]

\* The end of Auto.process, lines 843-879: the controller step, the
\* command, the freeze protection and the status.
Auto_process_control(c, last_command, last_sent, in, forecast, out, dew_point, target_inside_temp, info, t) ==
    LET hyst == hysteresis
        inside_temp == in.inside
        error == get_error(target_inside_temp, inside_temp, hyst)
        error_without_hysteresis == get_error(target_inside_temp, inside_temp, 0)
        u == Controller_update(SetProcessLimits(c), error, error_without_hysteresis, t)
        info1 == info \o <<"Target inside temperature", "Hysteresis",
                           "Inside temperature", "Controller">>
        command == get_next_command(in.valid_time, in.summer, inside_temp,
                       out.outside.temp, out.valid_outside, target_inside_temp, u.output)
        checked == out.valid_outside /\ ~IsNone(last_command)
                       /\ out.outside.temp < FreezeLimit
        temp_with_70_rh == estimate_temperature_with_rh(dew_point, 700)
        forced == checked /\ ~temp_with_70_rh.raised
                      /\ out.outside.temp < temp_with_70_rh.value
                      /\ last_command # Some(Commands_off)
        hs == Auto_handle_status(last_sent, u.c, in.valid_time, forecast,
                  out.valid_outside, inside_temp, target_inside_temp)
    IN  IF checked /\ temp_with_70_rh.raised
        THEN Raised(temp_with_70_rh.exc, "freeze protection", u.c, last_sent, info1)
        ELSE [raised |-> FALSE, exc |-> "", where |-> "", controller |-> u.c,
              last_status_email_sent |-> hs.last_status_email_sent,
              emailed |-> hs.emailed,
              next_command |-> Some(IF forced THEN Max2(Commands_heat8, command)
                                    ELSE command),
              extra_info |-> info1 \o (IF forced THEN <<"Forcing heating">> ELSE <<>>)
                                   \o <<"Status">>,
              target |-> Some(target_inside_temp), forced |-> forced,
              status |-> hs.status, command |-> Some(command)]

\* Auto.process(minimum_inside_temp) at time t, on the readings `in` that
\* get_temp fuses for this cycle, with controller c, Auto.last_command and
\* Auto.last_status_email_sent as they stand and COOLING_TIME_BUFFER cfg.
Auto_process(c, last_command, last_sent, cfg, minimum_inside_temp, in, t) ==
    LET fc == get_forecast(in.forecast, in.valid_time, t)
        out == get_outside(in.outside, fc.mean_forecast, t)
        info0 == <<"Forecast 24 h mean">> \o out.info
        outside_for_target_calc ==
            IF ~IsNone(fc.mean_forecast) /\ Val(fc.mean_forecast) # 0
            THEN TempTs(Val(fc.mean_forecast), t)
            ELSE out.outside
        target == target_inside_temperature(outside_for_target_calc,
                      ALLOWED_MINIMUM_INSIDE_TEMP, minimum_inside_temp,
                      fc.forecast, cfg, t)
        dew_point == in.dew.temp
        min_temp_with_80_rh == estimate_temperature_with_rh(dew_point, 800)
        info1 == info0 \o <<"Buffer", "Dew point">>
    IN  IF target.raised
        THEN Raised("StatisticsError", "buffer", c, last_sent, info0)
        ELSE IF IsNone(dew_point)
        THEN Auto_process_control(c, last_command, last_sent, in, fc.forecast, out,
                 dew_point, target.value, info1, t)
        ELSE IF min_temp_with_80_rh.raised
        THEN Raised(min_temp_with_80_rh.exc, "dew point", c, last_sent, info1)
        ELSE Auto_process_control(c, last_command, last_sent, in, fc.forecast, out,
                 dew_point, Max2(target.value, min_temp_with_80_rh.value),
                 info1 \o <<"Temp with 80% RH">>, t)

\* The COOLING_TIME_BUFFER the cache and controller behaviours run under.
DefaultBuffer == [kind |-> "const", hours |-> 3]

NoProc == [op |-> "none", n |-> 0, raised |-> FALSE, exc |-> "", where |-> "",
           next_command |-> None, extra_info |-> <<>>, status |-> <<>>,
           target |-> None, forced |-> FALSE, emailed |-> FALSE, sent |-> FALSE,
           last_command_before |-> None, dew_point |-> None,
           seconds_since_heating_start |-> 0, command |-> None,
           valid_outside |-> FALSE, outside_temp |-> 0]

min_time_heating == 6                   \* 60 * 60 * 3 seconds

\* Auto.load_state on controller c with the stored integral, if any.
Auto_load_state(c, saved_state) ==
    IF Controller_is_reset(c) /\ ~IsNone(saved_state)
    THEN [c EXCEPT !.integral = Val(saved_state)]
    ELSE c

\* A send condition that holds every off back until 3 hours of heating,
\* the first command after a clear included.
SendCondition_off_waits(last_command, next_command, seconds_since_heating_start) ==
    /\ IsNone(last_command) \/ Some(next_command) # last_command
    /\ \/ next_command # Commands_off
       \/ seconds_since_heating_start > min_time_heating

\* A send condition that lets every change through, off included.
SendCondition_any_change(last_command, next_command, seconds_since_heating_start) ==
    \/ IsNone(last_command)
    \/ Some(next_command) # last_command

\* Lines 787-790: whether run sends next_command.
SendCondition(last_command, next_command, seconds_since_heating_start) ==
    \/ IsNone(last_command)
    \/ /\ Some(next_command) # last_command
       /\ \/ next_command # Commands_off
          \/ /\ next_command = Commands_off
             /\ seconds_since_heating_start > min_time_heating

\* A run that restarts the heating clock at every heating command it sends,
\* a switch between two heating levels included.
Auto_run_restart_on_switch(c, a, payload, in, t) ==
    LET c1 == IF ~IsNone(payload) THEN Controller_reset_past_errors(c) ELSE c
        minimum_inside_temp ==
            IF IsNone(payload) THEN a.minimum_inside_temp
            ELSE IF ~IsNone(Val(payload).min_inside_temp)
            THEN Val(Val(payload).min_inside_temp)
            ELSE MINIMUM_INSIDE_TEMP
        c2 == Auto_load_state(c1, a.saved_state)
        r == Auto_process(c2, a.last_command, a.last_status_email_sent,
                          a.cooling_time_buffer, minimum_inside_temp, in, t)
        a1 == [a EXCEPT !.minimum_inside_temp = minimum_inside_temp,
                        !.last_status_email_sent = r.last_status_email_sent]
        next_command == Val(r.next_command)
        send == SendCondition(a.last_command, next_command, t - a.heating_start_time)
        from_off == next_command # Commands_off
    IN  IF r.raised
        THEN [controller |-> r.controller, auto |-> a1, r |-> r, sent |-> FALSE]
        ELSE [controller |-> r.controller,
              auto |-> [a1 EXCEPT
                  !.heating_start_time = IF send /\ from_off THEN t ELSE @,
                  !.last_command = IF send THEN Some(next_command) ELSE @,
                  !.saved_state = Some(r.controller.integral)],
              r |-> [r EXCEPT !.extra_info = @ \o <<"Actual last command">>],
              sent |-> send]

\* Auto.run(payload) at time t: the controller and the Auto attributes
\* afterwards, and what the cycle did.  A cycle in which process raises
\* keeps what was assigned before the exception and sends nothing.
Auto_run(c, a, payload, in, t) ==
    LET c1 == IF ~IsNone(payload) THEN Controller_reset_past_errors(c) ELSE c
        minimum_inside_temp ==
            IF IsNone(payload) THEN a.minimum_inside_temp
            ELSE IF ~IsNone(Val(payload).min_inside_temp)
            THEN Val(Val(payload).min_inside_temp)
            ELSE MINIMUM_INSIDE_TEMP
        c2 == Auto_load_state(c1, a.saved_state)
        r == Auto_process(c2, a.last_command, a.last_status_email_sent,
                          a.cooling_time_buffer, minimum_inside_temp, in, t)
        a1 == [a EXCEPT !.minimum_inside_temp = minimum_inside_temp,
                        !.last_status_email_sent = r.last_status_email_sent]
        next_command == Val(r.next_command)
        send == SendCondition(a.last_command, next_command, t - a.heating_start_time)
        from_off == (IsNone(a.last_command) \/ a.last_command = Some(Commands_off))
                        /\ next_command # Commands_off
    IN  IF r.raised
        THEN [controller |-> r.controller, auto |-> a1, r |-> r, sent |-> FALSE]
        ELSE [controller |-> r.controller,
              auto |-> [a1 EXCEPT
                  !.heating_start_time = IF send /\ from_off THEN t ELSE @,
                  !.last_command = IF send THEN Some(next_command) ELSE @,
                  !.saved_state = Some(r.controller.integral)],
              r |-> [r EXCEPT !.extra_info = @ \o <<"Actual last command">>],
              sent |-> send]

\* The payloads run is called with: none, or one that sets min_inside_temp
\* to 15 degrees.
Payloads == {None, Some([min_inside_temp |-> Some(600)])}

Fused(temp, ts) == [temp |-> temp, ts |-> ts]
Absent == Fused(None, None)

\* What get_temp can fuse from the forecast sources at time t: nothing, or
\* a forecast of 0 degrees an hour ago and -10 degrees in an hour.
ForecastReadings(t) ==
    {Absent, Fused(Some(<<TempTs(0, t - 2), TempTs(-400, t + 2)>>), Some(t))}

\* Outside readings: none, -5 and 0.5 degrees.
OutsideReadings(t) == {Absent} \cup {Fused(Some(v), Some(t)) : v \in {-200, 20}}

\* Dew points: none and -6 degrees.
DewReadings(t) == {Absent, Fused(Some(-240), Some(t))}

\* Inside readings: none, 9.5 and 30 degrees.
InsideReadings == {None, Some(380), Some(1200)}

\* The clock: not valid, valid in May..September, valid outside it.
ClockReadings ==
    {[valid_time |-> FALSE, summer |-> FALSE],
     [valid_time |-> TRUE, summer |-> TRUE],
     [valid_time |-> TRUE, summer |-> FALSE]}

CycleInputs(t) ==
    {[valid_time |-> k.valid_time, summer |-> k.summer, forecast |-> f,
      outside |-> o, dew |-> d, inside |-> i] :
        k \in ClockReadings, f \in ForecastReadings(t), o \in OutsideReadings(t),
        d \in DewReadings(t), i \in InsideReadings}

(***************************************************************************)
(* Initial states and actions.                                             *)
(***************************************************************************)
CacheStart ==
    /\ cache = [n \in CacheNames |-> None]
    /\ call = NoCall

CtrlStart ==
    /\ controller = Controller_init
    /\ upd = NoUpdate
    /\ lastUpdate = None

\* The class attributes as the class body sets them (lines 724-728), an
\* empty state store, and one of the buffer configurations.
AutoStart(buffers) ==
    /\ auto \in {[last_command |-> None, heating_start_time |-> 0,
                   minimum_inside_temp |-> MINIMUM_INSIDE_TEMP,
                   last_status_email_sent |-> None, saved_state |-> None,
                   cooling_time_buffer |-> b] : b \in buffers}
    /\ proc = NoProc

\* No function has been called on its own yet.
NoApp == [op |-> "none"]

Init ==
    /\ now = 0
    /\ CacheStart
    /\ CtrlStart
    /\ AutoStart({DefaultBuffer})
    /\ fn = NoApp

\* The clock advances.
Tick ==
    /\ now < MaxTime
    /\ now' = now + 1
    /\ call' = [NoCall EXCEPT !.op = "tick"]
    /\ upd' = [NoUpdate EXCEPT !.op = "tick"]
    /\ proc' = [NoProc EXCEPT !.op = "tick", !.n = proc.n]
    /\ UNCHANGED <<cache, controller, lastUpdate, auto, fn>>

\* One call of a cached source function.
CachedCall(name, f) ==
    LET r == caching_wrap(cache, name, f, now) IN
    /\ cache' = r.cache
    /\ call' = [op |-> "wrap", name |-> name,
                f |-> IF r.invoked THEN f ELSE NoF,
                invoked |-> r.invoked, wrote |-> r.wrote,
                ret |-> r.ret, before |-> Some(cache)]
    /\ UNCHANGED <<now, ctrlVars, autoVars, fn>>

RequestCache_reset ==
    /\ cache' = [n \in CacheNames |-> None]
    /\ call' = [NoCall EXCEPT !.op = "reset"]
    /\ UNCHANGED <<now, ctrlVars, autoVars, fn>>

CacheNext ==
    \/ Tick
    \/ RequestCache_reset
    \/ \E name \in CacheNames : \E f \in FOutcomes(now) : CachedCall(name, f)

SpecCache == Init /\ [][CacheNext]_vars

\* One call of Controller.update.
Update(a) ==
    LET r == Controller_update(controller, a.error, a.ewh, now) IN
    /\ IsNone(a.error) \/ Len(controller.past_errors) < MaxSamples
    /\ controller' = r.c
    /\ upd' = [op |-> "update", error |-> r.error, pre |-> controller.integral,
               acc |-> r.acc, delta_time |-> r.delta_time, slope |-> r.slope,
               output |-> r.output, prev |-> lastUpdate,
               past_errors |-> controller.past_errors]
    /\ lastUpdate' = Some([at |-> now, absent |-> IsNone(a.error)])
    /\ UNCHANGED <<now, cacheVars, autoVars, fn>>

\* Controller.reset()
Reset ==
    /\ controller' = Controller_reset(controller)
    /\ upd' = [NoUpdate EXCEPT !.op = "reset"]
    /\ lastUpdate' = None
    /\ UNCHANGED <<now, cacheVars, autoVars, fn>>

\* Controller.reset_past_errors(), as Auto.run calls it for a new payload.
ResetPastErrors ==
    /\ controller' = Controller_reset_past_errors(controller)
    /\ upd' = [NoUpdate EXCEPT !.op = "reset_past_errors"]
    /\ UNCHANGED <<now, cacheVars, lastUpdate, autoVars, fn>>

\* set_i_low_limit and set_i_high_limit, as Auto.process calls them.
SetLimits ==
    /\ controller' = SetProcessLimits(controller)
    /\ upd' = [NoUpdate EXCEPT !.op = "set_limits"]
    /\ UNCHANGED <<now, cacheVars, lastUpdate, autoVars, fn>>

\* Auto.load_state: a reset controller takes its integral from storage.
LoadState(v) ==
    /\ Controller_is_reset(controller)
    /\ controller' = [controller EXCEPT !.integral = v]
    /\ upd' = [NoUpdate EXCEPT !.op = "load_state"]
    /\ UNCHANGED <<now, cacheVars, lastUpdate, autoVars, fn>>

CtrlNext ==
    \/ Tick
    \/ Reset
    \/ ResetPastErrors
    \/ SetLimits
    \/ \E v \in SavedIntegrals : LoadState(v)
    \/ \E a \in UpdateArgs : Update(a)

SpecCtrl == Init /\ [][CtrlNext]_vars

\* One Auto.run cycle.
Run(payload, in) ==
    /\ proc.n < MaxRuns
    /\ \E x \in {Auto_run(controller, auto, payload, in, now)} :
       LET updated == ~x.r.raised \/ x.r.where = "freeze protection"
           fc == get_forecast(in.forecast, in.valid_time, now)
           out == get_outside(in.outside, fc.mean_forecast, now)
       IN
       /\ controller' = x.controller
       /\ auto' = x.auto
       /\ proc' = [op |-> "run", n |-> proc.n + 1, raised |-> x.r.raised,
                   exc |-> x.r.exc, where |-> x.r.where,
                   next_command |-> x.r.next_command, extra_info |-> x.r.extra_info,
                   status |-> x.r.status, target |-> x.r.target, forced |-> x.r.forced,
                   emailed |-> x.r.emailed, sent |-> x.sent,
                   last_command_before |-> auto.last_command,
                   dew_point |-> in.dew.temp,
                   seconds_since_heating_start |-> now - auto.heating_start_time,
                   command |-> x.r.command, valid_outside |-> out.valid_outside,
                   outside_temp |-> out.outside.temp]
       /\ upd' = [NoUpdate EXCEPT !.op = "run"]
       /\ lastUpdate' = IF updated
                        THEN Some([at |-> now, absent |-> IsNone(in.inside)])
                        ELSE lastUpdate
       /\ UNCHANGED <<now, cacheVars, fn>>

\* Auto.clear(), as Auto.nex calls it when the state is left.
Clear ==
    /\ controller' = Controller_reset(controller)
    /\ auto' = [auto EXCEPT !.last_command = None,
                            !.minimum_inside_temp = MINIMUM_INSIDE_TEMP,
                            !.last_status_email_sent = None]
    /\ proc' = [NoProc EXCEPT !.op = "clear", !.n = proc.n]
    /\ upd' = [NoUpdate EXCEPT !.op = "clear"]
    /\ lastUpdate' = None
    /\ UNCHANGED <<now, cacheVars, fn>>

\* The time between two cycles: min_time_heating exactly, or a tick more.
Durations == {min_time_heating, min_time_heating + 1}

\* The clock advances between cycles.
Elapse(d) ==
    /\ now + d <= MaxClock
    /\ now' = now + d
    /\ call' = [NoCall EXCEPT !.op = "tick"]
    /\ upd' = [NoUpdate EXCEPT !.op = "tick"]
    /\ proc' = [NoProc EXCEPT !.op = "tick", !.n = proc.n]
    /\ UNCHANGED <<cache, controller, lastUpdate, auto, fn>>

InitProcess ==
    /\ now = 0
    /\ CacheStart
    /\ CtrlStart
    /\ AutoStart(BufferConfigs)
    /\ fn = NoApp

ProcessNext ==
    \/ \E d \in Durations : Elapse(d)
    \/ Clear
    \/ \E payload \in Payloads : \E in \in CycleInputs(now) : Run(payload, in)

SpecProcess == InitProcess /\ [][ProcessNext]_vars

(***************************************************************************)
(* The functions of the module called on their own, on arguments drawn     *)
(* from small sets: one call in a behaviour.  The clock stands still       *)
(* here: each function reads it once, and only differences to it matter.   *)
(***************************************************************************)
MaxSources == 3         \* source functions in one get_temp call

\* What a source function can hand get_temp: None, or a pair whose value
\* is absent, 10 or 12 and whose timestamp is absent or up to an hour
\* before or after t.
SourceResults(t) ==
    {None} \cup {Some(Pair(tv, sv)) :
                    tv \in {None} \cup {Some(v) : v \in TempVals},
                    sv \in {None} \cup {Some(t + d) : d \in {-2, -1, 1, 2}}}

SeqsUpTo(S, n) == UNION {[1..k -> S] : k \in 0..n}

\* max_ts_diff: the default, or 90 minutes.
MaxTsDiffs == {None, Some(3)}

\* One call of get_temp.
GetTemp(results, max_ts_diff) ==
    /\ fn = NoApp
    /\ fn' = [op |-> "get_temp", results |-> results, max_ts_diff |-> max_ts_diff,
              t |-> now,
              temperatures |-> Temperatures(results, MaxTsDiff(max_ts_diff), now),
              fused |-> get_temp(results, max_ts_diff, now)]
    /\ UNCHANGED <<now, cacheVars, ctrlVars, autoVars>>

\* Forecast objects as make_forecast builds them: none, one without
\* points, one ahead of t that turns cold, one with a point already past.
Forecasts(t) ==
    {None,
     Some([temps |-> <<>>, ts |-> t]),
     Some([temps |-> <<TempTs(-200, t + 2), TempTs(-720, t + 4)>>, ts |-> t]),
     Some([temps |-> <<TempTs(0, t - 2), TempTs(-400, t + 2)>>, ts |-> t])}

\* Outside readings of -20, -5 and 15 degrees, taken now or half an hour ago.
OutsideTempTs(t) == {TempTs(v, s) : v \in {-800, -200, 600}, s \in {t - 1, t}}

\* Buffers: none, 1.5 hours, 20 hours, and the function.
Buffers ==
    {[kind |-> "const", hours |-> h] : h \in {0, 3, 40}}
    \cup {[kind |-> "fn", hours |-> 0, name |-> "linear"]}

\* allowed_min_inside_temp of 5 and 12 degrees, floors of 10 and 15 degrees.
AllowedMinimums == {200, 480}
MinimumFloors == {400, 600}

\* One call of target_inside_temperature.
TargetInsideTemperature(outside_temp_ts, allowed_min, minimum, forecast, buffer) ==
    /\ fn = NoApp
    /\ \E r \in {target_inside_temperature(outside_temp_ts, allowed_min, minimum,
                                             forecast, buffer, now)} :
           fn' = [op |-> "target_inside_temperature",
                  outside_temp_ts |-> outside_temp_ts,
                  allowed_min_inside_temp |-> allowed_min,
                  minimum_inside_temp |-> minimum, forecast |-> forecast,
                  cooling_time_buffer |-> buffer, t |-> now,
                  raised |-> r.raised, value |-> r.value]
    /\ UNCHANGED <<now, cacheVars, ctrlVars, autoVars>>

\* Inside readings: none, and up to 0.75 degrees either side of a target.
InsideAround(target) == {None} \cup {Some(target + d) : d \in -30..30}

\* One call of get_error.
GetError(target_inside_temp, inside_temp, hyst) ==
    /\ fn = NoApp
    /\ fn' = [op |-> "get_error", target_inside_temp |-> target_inside_temp,
              inside_temp |-> inside_temp, hyst |-> hyst,
              error |-> get_error(target_inside_temp, inside_temp, hyst)]
    /\ UNCHANGED <<now, cacheVars, ctrlVars, autoVars>>

\* One call of get_next_command.
GetNextCommand(valid_time, in_summer, inside_temp, outside_temp, valid_outside, target_inside_temp, target_from_controller) ==
    /\ fn = NoApp
    /\ fn' = [op |-> "get_next_command", valid_time |-> valid_time,
              in_summer |-> in_summer, inside_temp |-> inside_temp,
              outside_temp |-> outside_temp, valid_outside |-> valid_outside,
              target_inside_temp |-> target_inside_temp,
              target_from_controller |-> target_from_controller,
              command |-> get_next_command(valid_time, in_summer, inside_temp,
                              outside_temp, valid_outside, target_inside_temp,
                              target_from_controller)]
    /\ UNCHANGED <<now, cacheVars, ctrlVars, autoVars>>

\* What an outdoor adapter returns at time t (lines 106-221): nothing, a
\* pair of absent fields, or a temperature with its timestamp.
OutdoorResults(t) ==
    {None, Some(Pair(None, None))}
        \cup {Some(Pair(Some(v), Some(t - d))) : v \in {0, Deg(-5)}, d \in 0..2}

\* One call of get_outside on what the outdoor sources return.
GetOutside(results, mean_forecast) ==
    /\ fn = NoApp
    /\ \E fused \in {get_temp(results, None, now)} :
       \E r \in {get_outside(fused, mean_forecast, now)} :
           fn' = [op |-> "get_outside", results |-> results,
                  mean_forecast |-> mean_forecast, t |-> now, fused |-> fused,
                  outside |-> r.outside, valid_outside |-> r.valid_outside]
    /\ UNCHANGED <<now, cacheVars, ctrlVars, autoVars>>

\* One call of cooling_time_buffer_resolved.
CoolingTimeBufferResolved(cfg, outside_temp, forecast) ==
    /\ fn = NoApp
    /\ \E r \in {cooling_time_buffer_resolved(cfg, outside_temp, forecast)} :
           fn' = [op |-> "cooling_time_buffer_resolved", cooling_time_buffer |-> cfg,
                  outside_temp |-> outside_temp, forecast |-> forecast,
                  raised |-> r.raised, hours |-> r.hours, calls |-> r.calls]
    /\ UNCHANGED <<now, cacheVars, ctrlVars, autoVars>>

FunctionsNext ==
    \/ \E results \in SeqsUpTo(SourceResults(now), MaxSources) :
           \E max_ts_diff \in MaxTsDiffs : GetTemp(results, max_ts_diff)
    \/ \E o \in OutsideTempTs(now), a \in AllowedMinimums, m \in MinimumFloors,
           f \in Forecasts(now), b \in Buffers :
           TargetInsideTemperature(o, a, m, f, b)
    \/ \E target \in MinimumFloors, hyst \in {0, hysteresis} :
           \E inside \in InsideAround(target) : GetError(target, inside, hyst)
    \/ \E valid_time \in BOOLEAN, in_summer \in BOOLEAN, valid_outside \in BOOLEAN,
           inside \in {None, Some(Deg(20))},
           outside \in {Deg(-10), Deg(9), Deg(10), Deg(11), Deg(25)},
           target \in MinimumFloors, out \in {0, 799, 800, 1650, 2500} :
           GetNextCommand(valid_time, in_summer, inside, outside, valid_outside,
                          target, Frac(out, 1))
    \/ \E results \in SeqsUpTo(OutdoorResults(now), MaxSources) :
           \E mean_forecast \in {None, Some(0), Some(Deg(-3))} :
               GetOutside(results, mean_forecast)
    \/ \E cfg \in Buffers, o \in OutsideTempTs(now),
           f \in Forecasts(now) \cup
                 {Some([temps |-> <<TempTs(-720, now + 2), TempTs(-720, now + 4),
                                    TempTs(0, now + 6), TempTs(0, now + 8),
                                    TempTs(0, now + 10), TempTs(0, now + 12)>>,
                        ts |-> now])} :
           CoolingTimeBufferResolved(cfg, o.temp, f)

SpecFunctions == Init /\ [][FunctionsNext]_vars

(***************************************************************************)
(* target_inside_temperature step by step: one action for each evaluation  *)
(* of the while condition with the body it lets run, and one for each      *)
(* point the for loop's filter is asked about.                             *)
(***************************************************************************)

\* Lines 372-402: the call up to the first evaluation of the while
\* condition.
SimStart(outside_temp_ts, allowed_min, minimum, forecast, buffer) ==
    /\ fn = NoApp
    /\ \E b \in {cooling_time_buffer_resolved(buffer, outside_temp_ts.temp, forecast)} :
       \E reversed_forecast \in {Reversed(BuildValidForecast(<<outside_temp_ts>>,
               IF IsNone(forecast) THEN <<>> ELSE Val(forecast).temps))} :
           fn' = IF b.raised THEN [op |-> "raised"]
                 ELSE [op |-> "while", step |-> "start", t |-> now,
                       buffer_hours |-> b.hours,
                       reversed_forecast |-> reversed_forecast,
                       rest |-> reversed_forecast,
                       outside_after_forecast |-> MeanTemp(reversed_forecast),
                       allowed_min_inside_temp |-> allowed_min,
                       minimum_inside_temp |-> minimum,
                       iteration_inside_temp |-> allowed_min,
                       iteration_ts |-> now + b.hours,
                       before_ts |-> now + b.hours, hours |-> 0,
                       outside |-> 0, visited |-> <<>>, value |-> None]
    /\ UNCHANGED <<now, cacheVars, ctrlVars, autoVars>>

\* Line 404 and the body under it: the while condition is evaluated; the
\* body runs, or the loop is left for the for loop.
PreForecastIteration ==
    /\ fn.op = "while"
    /\ fn' = IF fn.iteration_ts > fn.reversed_forecast[1].ts
             THEN LET s == PreForecastStep(fn.iteration_inside_temp, fn.iteration_ts,
                               fn.reversed_forecast[1].ts, fn.outside_after_forecast,
                               fn.allowed_min_inside_temp)
                  IN  [fn EXCEPT !.step = "while", !.iteration_inside_temp = s.temp,
                                 !.iteration_ts = s.ts, !.before_ts = fn.iteration_ts,
                                 !.hours = s.hours,
                                 !.outside = fn.outside_after_forecast]
             ELSE [fn EXCEPT !.op = "for", !.step = "enter"]
    /\ UNCHANGED <<now, cacheVars, ctrlVars, autoVars>>

\* Lines 434-468: the for loop asks its filter about the next point and
\* runs the body on a point that passes; with no point left the function
\* returns.
ForecastIteration ==
    /\ fn.op = "for"
    /\ fn' = IF fn.rest = <<>>
             THEN [fn EXCEPT !.op = "returned", !.step = "return",
                       !.value = Some(TargetResult(fn.iteration_inside_temp,
                                                   fn.minimum_inside_temp))]
             ELSE LET fc == Head(fn.rest) IN
                  IF fc.ts <= fn.iteration_ts
                  THEN LET s == ForecastStep(fn.iteration_inside_temp, fn.iteration_ts,
                                    fc, fn.allowed_min_inside_temp)
                       IN  [fn EXCEPT !.step = "for", !.iteration_inside_temp = s.temp,
                                      !.iteration_ts = s.ts,
                                      !.before_ts = fn.iteration_ts,
                                      !.hours = s.hours, !.outside = fc.temp,
                                      !.visited = Append(@, fc),
                                      !.rest = Tail(@)]
                  ELSE [fn EXCEPT !.step = "skip", !.rest = Tail(@)]
    /\ UNCHANGED <<now, cacheVars, ctrlVars, autoVars>>

SimulationNext ==
    \/ \E o \in OutsideTempTs(now), a \in AllowedMinimums, m \in MinimumFloors,
           b \in Buffers \cup {[kind |-> "const", hours |-> 7]},
           f \in Forecasts(now) \cup
                 {Some([temps |-> <<TempTs(-200, now + 4), TempTs(0, now + 2),
                                    TempTs(-720, now + 4), TempTs(-720, now + 6),
                                    TempTs(600, now + 7)>>, ts |-> now])} :
           SimStart(o, a, m, f, b)
    \/ PreForecastIteration
    \/ ForecastIteration

SpecSimulation == Init /\ [][SimulationNext]_vars

\* The call runs on: a step that can be taken is taken.
SpecSimulationLive == Init /\ [][SimulationNext]_vars /\ WF_vars(SimulationNext)

(***************************************************************************)
(* One get_temp over cached source functions whose calls overlap: each     *)
(* wrapper consults the cache when its function is invoked and stores or   *)
(* falls back when the function completes, and the readings are fused in   *)
(* the order of completion.  Calls of the wrappers beforehand leave        *)
(* entries in the cache.  The fusion happens at one reading of the clock.  *)
(***************************************************************************)

Range(q) == {q[i] : i \in DOMAIN q}

\* The source functions of the fusion, in the order of get_temp's list.
Functions == <<"receive_fmi_temperature", "receive_inside_temperature">>

\* A decorator that caches every function under one name.
cache_name_shared(func) == "fmi"

\* The cache_name each function is decorated with (lines 119, 131).
cache_name(func) == IF func = "receive_fmi_temperature" THEN "fmi" ELSE "inside"

RECURSIVE Sequential(_, _, _, _, _)
\* get_temp's loop (lines 344-345) over the functions funcs, one whole
\* wrapper call after the other, from cache c with the outcomes f: the
\* results in list order and the cache afterwards.
Sequential(c, f, funcs, results, t) ==
    IF funcs = <<>> THEN [results |-> results, cache |-> c]
    ELSE LET r == caching_wrap(c, cache_name(Head(funcs)), f[Head(funcs)], t)
         IN  Sequential(r.cache, f, Tail(funcs), Append(results, r.ret), t)

\* A wrapper call before the fusion, for what it leaves in the cache.
Prime(func, f) ==
    /\ fn = NoApp
    /\ cache' = caching_wrap(cache, cache_name(func), f, now).cache
    /\ cache' # cache
    /\ UNCHANGED <<now, call, ctrlVars, autoVars, fn>>

\* Lines 54-58: the wrapper of func consults the cache; on a hit it returns
\* the cached content, on a miss it invokes the function.  The first
\* invocation opens the fusion.
Invoke(func) ==
    LET start == [op |-> "fusion", start |-> cache, t |-> now,
                  pc |-> [g \in Range(Functions) |-> "idle"],
                  f |-> [g \in Range(Functions) |->
                            [kind |-> "raise", pair |-> Pair(None, None)]],
                  results |-> <<>>, order |-> <<>>, fused |-> None]
        s == IF fn = NoApp THEN start ELSE fn
        hit == RequestCache_get(cache, cache_name(func), "ok", now)
    IN  /\ s.op = "fusion"
        /\ s.pc[func] = "idle"
        /\ fn' = IF Truthy(hit)
                 THEN [s EXCEPT !.pc[func] = "done",
                                !.results = Append(@, hit),
                                !.order = Append(@, func)]
                 ELSE [s EXCEPT !.pc[func] = "fetching"]
        /\ UNCHANGED <<now, cacheVars, ctrlVars, autoVars>>

\* Lines 60-79: the function completes with outcome f; the wrapper stores
\* a stamped result, and returns the 'failed' entry otherwise.
Complete(func, f) ==
    LET result == ResultOfF(f)
        name == cache_name(func)
    IN  /\ fn.op = "fusion"
        /\ fn.pc[func] = "fetching"
        /\ cache' = IF StoreCondition(result)
                    THEN RequestCache_put(cache, name,
                             Val(Val(result).ts) + if_ok(name),
                             Val(Val(result).ts) + if_failed(name), Val(result))
                    ELSE cache
        /\ fn' = [fn EXCEPT !.pc[func] = "done", !.f[func] = f,
                            !.results = Append(@, IF StoreCondition(result) THEN result
                                ELSE RequestCache_get(cache, name, "failed", now)),
                            !.order = Append(@, func)]
        /\ UNCHANGED <<now, call, ctrlVars, autoVars>>

\* Lines 346-358: every function has returned and get_temp fuses the
\* results.
Fuse ==
    /\ fn.op = "fusion"
    /\ \A g \in Range(Functions) : fn.pc[g] = "done"
    /\ fn' = [fn EXCEPT !.op = "fused",
                        !.fused = Some(get_temp(fn.results, None, now))]
    /\ UNCHANGED <<now, cacheVars, ctrlVars, autoVars>>

FusionNext ==
    \/ fn = NoApp /\ Tick
    \/ \E func \in Range(Functions) :
           \E ts \in {now - 1, now}, temp \in TempVals :
               Prime(func, [kind |-> "pair", pair |-> Pair(Some(temp), Some(ts))])
    \/ \E func \in Range(Functions) : Invoke(func)
    \/ \E func \in Range(Functions) :
           \E f \in {[kind |-> "raise", pair |-> Pair(None, None)],
                      [kind |-> "pair", pair |-> Pair(Some(10), None)]}
                     \cup {[kind |-> "pair", pair |-> Pair(Some(v), Some(ts))] :
                               v \in TempVals, ts \in {now - 1, now}} :
               Complete(func, f)
    \/ Fuse

SpecFusion == Init /\ [][FusionNext]_vars

(***************************************************************************)
(* Claims about the staleness cache, checked under SpecCache.              *)
(***************************************************************************)

\* C6: an entry stored by the wrapper from a reading stamped t is returned
\* unchanged by get(name, 'ok') exactly while now <= t + ok_ttl and by
\* get(name, 'failed') exactly while now <= t + failed_ttl (ok_ttl <
\* failed_ttl), and is absent afterwards; a name never stored, or cleared by
\* reset, is absent on both channels.
C6_CacheWindows ==
    /\ \A n \in CacheNames :
          IF IsNone(cache[n])
          THEN /\ RequestCache_get(cache, n, "ok", now) = None
               /\ RequestCache_get(cache, n, "failed", now) = None
          ELSE LET p == Val(cache[n]).content
                   t == Val(p.ts)
               IN  if_ok(n) < if_failed(n) =>
                   /\ RequestCache_get(cache, n, "ok", now) =
                          (IF now <= t + if_ok(n) THEN Some(p) ELSE None)
                   /\ RequestCache_get(cache, n, "failed", now) =
                          (IF now <= t + if_failed(n) THEN Some(p) ELSE None)
    /\ (call.op = "wrap" /\ call.wrote) =>
          /\ ~IsNone(cache[call.name])
          /\ Val(cache[call.name]).content = call.f.pair
    /\ call.op = "reset" => \A n \in CacheNames : IsNone(cache[n])

\* Reached: an entry whose ok window has passed while its failed window is
\* still open, seen after the clock moved.
C6_Witness ==
    /\ call.op = "tick"
    /\ \E n \in CacheNames :
          /\ ~IsNone(cache[n])
          /\ now > Val(Val(cache[n]).content.ts) + if_ok(n)
          /\ now <= Val(Val(cache[n]).content.ts) + if_failed(n)
          /\ RequestCache_get(cache, n, "ok", now) = None
          /\ RequestCache_get(cache, n, "failed", now) = Some(Val(cache[n]).content)

\* C7 (as claimed): once a reading stamped t is stored and the source fails
\* (raises or returns nothing usable) on a later call, the call returns the
\* stored payload verbatim while now <= t + failed_ttl and absent afterwards,
\* and leaves the entry as it was.
C7_FailingSourceReusesStored ==
    (/\ call.op = "wrap"
     /\ ~IsNone(Val(call.before)[call.name])
     /\ ~IsNone(Val(Val(call.before)[call.name]).content.temp)
     /\ (call.invoked => ~Usable(call.f)))
    => LET p == Val(Val(call.before)[call.name]).content
           t == Val(p.ts)
       IN  /\ call.ret = (IF now <= t + if_failed(call.name) THEN Some(p) ELSE None)
           /\ cache = Val(call.before)

\* C8: whenever get(name, 'ok') yields a payload at the time of the call,
\* the cached function returns exactly that payload, f is not invoked and
\* the cache is left unchanged.
C8_HitReturnsCached ==
    (/\ call.op = "wrap"
     /\ ~IsNone(RequestCache_get(Val(call.before), call.name, "ok", now)))
    => /\ call.ret = RequestCache_get(Val(call.before), call.name, "ok", now)
       /\ ~call.invoked
       /\ cache = Val(call.before)

\* Reached: a call answered from the cache.
C8_Witness ==
    /\ call.op = "wrap"
    /\ ~IsNone(RequestCache_get(Val(call.before), call.name, "ok", now))
    /\ ~IsNone(call.ret)
    /\ ~call.invoked

\* C9 (as claimed): on a miss the wrapper writes an entry if and only if f
\* returned a pair with both value and timestamp present; the entry then
\* expires at timestamp + ok_ttl(name) and timestamp + failed_ttl(name) and
\* the fresh pair is returned.
C9_StoreIffBothPresent ==
    (call.op = "wrap" /\ call.invoked)
    => /\ call.wrote <=> Usable(call.f)
       /\ call.wrote =>
             /\ cache = [Val(call.before) EXCEPT ![call.name] =
                    Some([stale_after_if_ok |-> Val(call.f.pair.ts) + if_ok(call.name),
                          stale_after_if_failed |-> Val(call.f.pair.ts) + if_failed(call.name),
                          content |-> call.f.pair])]
             /\ call.ret = Some(call.f.pair)
       /\ ~call.wrote => cache = Val(call.before)

\* C10 (as claimed): on a miss where f raises or returns nothing usable the
\* cache is left unchanged and the call returns get(name, 'failed').
C10_FailureFallsBack ==
    (call.op = "wrap" /\ call.invoked /\ ~Usable(call.f))
    => /\ cache = Val(call.before)
       /\ call.ret = RequestCache_get(Val(call.before), call.name, "failed", now)


(***************************************************************************)
(* Claims about the Controller, checked under SpecCtrl.                    *)
(***************************************************************************)

\* C2: immediately after every Controller.update, i_low_limit <= integral
\* <= i_high_limit (given i_low_limit <= i_high_limit), whatever the errors,
\* the time deltas and the integral held before the call.
C2_IntegralWithinLimits ==
    (upd.op = "update" /\ controller.i_low_limit <= controller.i_high_limit)
    => /\ controller.i_low_limit <= controller.integral
       /\ controller.integral <= controller.i_high_limit

\* Reached: a positive error pushed the integral from within the limits to
\* beyond the high limit, and the update left it at the limit.
C2_Witness ==
    /\ upd.op = "update"
    /\ upd.error > 0
    /\ upd.pre <= controller.i_high_limit
    /\ upd.acc > controller.i_high_limit
    /\ controller.i_low_limit < controller.i_high_limit
    /\ controller.integral = controller.i_high_limit

\* C3: with a previous update time, ki * error * delta_time is added to the
\* integral if and only if (error > 0 and the hourly slope >= -0.05) or
\* (error < 0 and the hourly slope <= 0); otherwise (error = 0 included) only
\* the clamp changes the integral.  The slope is num/den units per tick and
\* -0.05 degrees/hour is -1 unit per tick.
C3_GatedAccumulation ==
    (upd.op = "update" /\ ~IsNone(upd.prev))
    => LET slope == Controller_past_error_slope(controller.past_errors)
           dt == now - Val(upd.prev).at
           gate == \/ upd.error > 0 /\ slope.num >= -slope.den
                   \/ upd.error < 0 /\ slope.num <= 0
           expected == IF gate THEN upd.pre + Ki * upd.error * dt ELSE upd.pre
       IN  /\ upd.acc = expected
           /\ controller.integral =
                 (IF expected > controller.i_high_limit THEN controller.i_high_limit
                  ELSE IF expected < controller.i_low_limit THEN controller.i_low_limit
                  ELSE expected)

\* Reached: a positive error with the slope exactly at -0.05 degrees/hour,
\* and the integral accumulated.
C3_Witness ==
    /\ upd.op = "update"
    /\ ~IsNone(upd.prev)
    /\ upd.error > 0
    /\ upd.slope.num = -upd.slope.den
    /\ upd.acc = upd.pre + Ki * upd.error * (now - Val(upd.prev).at)
    /\ upd.acc # upd.pre

\* C4 (as claimed): no accumulation whenever the error is positive and the
\* hourly slope is <= -0.05 degrees/hour.
C4_NoAccumulationAtOrBelow ==
    (upd.op = "update" /\ upd.error > 0 /\ upd.slope.num <= -upd.slope.den)
    => upd.acc = upd.pre

\* C4 (amended): no accumulation whenever the error is positive and the
\* hourly slope is strictly below -0.05 degrees/hour, for any delta_time.
C4_NoAccumulationBelow ==
    (upd.op = "update" /\ upd.error > 0 /\
     Controller_past_error_slope(controller.past_errors).num <
        -Controller_past_error_slope(controller.past_errors).den)
    => upd.acc = upd.pre

\* Reached: a positive error, a slope below -0.05 degrees/hour and a positive
\* delta_time, with the integral before clamping as it was before the call.
C4_Witness ==
    /\ upd.op = "update"
    /\ upd.error > 0
    /\ upd.slope.num < -upd.slope.den
    /\ ~IsNone(upd.delta_time)
    /\ Val(upd.delta_time) > 0
    /\ upd.acc = upd.pre

\* C5: the first update after construction or reset adds nothing to the
\* integral whatever the error; from the second update on delta_time is the
\* time since the immediately preceding update call, also when that call had
\* an absent error.
C5_DeltaFromPreviousCall ==
    upd.op = "update"
    => /\ IsNone(upd.prev) => (upd.acc = upd.pre /\ IsNone(upd.delta_time))
       /\ ~IsNone(upd.prev) =>
             /\ upd.delta_time = Some(now - Val(upd.prev).at)
             /\ upd.acc \in {upd.pre,
                             upd.pre + Ki * upd.error * (now - Val(upd.prev).at)}

\* Reached: an update whose preceding call had an absent error, some time
\* ago, and which accumulated over exactly that time.
C5_Witness ==
    /\ upd.op = "update"
    /\ ~IsNone(upd.prev)
    /\ Val(upd.prev).absent
    /\ now > Val(upd.prev).at
    /\ upd.acc # upd.pre

(***************************************************************************)
(* Claims about Auto.process, under SpecProcess.                           *)
(***************************************************************************)

\* C1: Auto.process never aborts: whatever readings are present or absent,
\* whatever the clock validity, the previously sent command and the
\* configured buffer, every cycle's process call runs to completion without
\* raising and returns a command together with its status strings.
C1_ProcessNeverAborts ==
    proc.op = "run" =>
        /\ ~proc.raised
        /\ ~IsNone(proc.next_command)
        /\ Val(proc.next_command) \in CommandLevels
        /\ proc.extra_info # <<>>

\* The cycle C1 fails on: a command was sent before, the buffer is a
\* constant, the outside reading is valid and below 1 degree, and there is
\* no dew point.
C1_FreezeProtectionRaises ==
    /\ proc.op = "run"
    /\ proc.raised
    /\ proc.exc = "TypeError"
    /\ auto.cooling_time_buffer.kind = "const"
    /\ ~IsNone(proc.last_command_before)
    /\ IsNone(proc.dew_point)

\* The other way process raises: a buffer function that resolves to less
\* than an hour leaves forecast_mean_temperature an empty slice.
C1_BufferRaises ==
    /\ proc.op = "run"
    /\ proc.raised
    /\ proc.exc = "StatisticsError"

(***************************************************************************)
(* Claims about the functions, under SpecFunctions.                        *)
(***************************************************************************)

\* The limit a get_temp call ran with: 60 minutes unless one was given.
C11_Limit == IF IsNone(fn.max_ts_diff) THEN 2 ELSE Val(fn.max_ts_diff)

\* What C11 says is kept of a source's result r.
C11_Kept(r) ==
    /\ r # None
    /\ Val(r).temp # None
    /\ \/ Val(r).ts = None
       \/ /\ fn.t - Val(Val(r).ts) < C11_Limit
          /\ Val(Val(r).ts) - fn.t < C11_Limit

\* C11: get_temp passes to the median exactly the source results whose
\* value is present and whose timestamp is absent or less than max_ts_diff
\* minutes (default 60) from now, in the past or in the future; everything
\* else is discarded.
C11_AcceptedReadings ==
    fn.op = "get_temp" =>
        LET kept == SelectSeq(fn.results, C11_Kept) IN
        fn.temperatures = [i \in 1..Len(kept) |-> Val(kept[i])]

\* A call with the default limit in which a 30 minute old reading is kept
\* while a 60 minute old one and one stamped 60 minutes ahead are dropped.
C11_Witness ==
    /\ fn.op = "get_temp"
    /\ IsNone(fn.max_ts_diff)
    /\ Len(fn.results) = 3
    /\ fn.results[1] = Some(Pair(Some(10), Some(fn.t - 2)))
    /\ fn.results[2] = Some(Pair(Some(12), Some(fn.t - 1)))
    /\ fn.results[3] = Some(Pair(Some(10), Some(fn.t + 2)))
    /\ fn.temperatures = <<Pair(Some(12), Some(fn.t - 1))>>

\* The number of accepted readings whose value is below, or at most, v.
C12_Below(v) ==
    Cardinality({i \in 1..Len(fn.temperatures) : Val(fn.temperatures[i].temp) < v})
C12_AtMost(v) ==
    Cardinality({i \in 1..Len(fn.temperatures) : Val(fn.temperatures[i].temp) <= v})

\* x is the average of a and b, to the unit.
C12_Mid(x, a, b) == 2 * x <= a + b /\ a + b <= 2 * x + 1

\* C12: the fused result is the median by value of the accepted pairs: for
\* an odd count the pair at the middle rank, for an even count the average
\* of the two central values with the average of their timestamps, and
\* (none, none) when nothing was accepted.
C12_MedianOfAccepted ==
    fn.op = "get_temp" =>
        LET T == fn.temperatures
            n == Len(T)
            h == n \div 2
        IN  /\ n = 0 => fn.fused = Pair(None, None)
            /\ n % 2 = 1 =>
                   \E i \in 1..n :
                       /\ fn.fused = T[i]
                       /\ C12_Below(Val(T[i].temp)) <= h
                       /\ C12_AtMost(Val(T[i].temp)) >= h + 1
            /\ (n > 0 /\ n % 2 = 0) =>
                   \E i, j \in 1..n :
                       /\ i # j
                       /\ C12_Below(Val(T[i].temp)) <= h - 1
                       /\ C12_AtMost(Val(T[i].temp)) >= h
                       /\ C12_Below(Val(T[j].temp)) <= h
                       /\ C12_AtMost(Val(T[j].temp)) >= h + 1
                       /\ ~IsNone(fn.fused.temp)
                       /\ C12_Mid(Val(fn.fused.temp), Val(T[i].temp), Val(T[j].temp))
                       /\ (~IsNone(T[i].ts) /\ ~IsNone(T[j].ts)) =>
                              /\ ~IsNone(fn.fused.ts)
                              /\ C12_Mid(Val(fn.fused.ts), Val(T[i].ts), Val(T[j].ts))

\* 10 and 12 stamped two ticks apart fuse to 11 at the instant between
\* them.
C12_Witness ==
    /\ fn.op = "get_temp"
    /\ fn.temperatures = <<Pair(Some(10), Some(fn.t - 1)), Pair(Some(12), Some(fn.t + 1))>>
    /\ fn.fused = Pair(Some(11), Some(fn.t))

\* C13: target_inside_temperature never returns less than
\* minimum_inside_temp, the caller's hard floor, whatever the outside
\* reading, allowed_min_inside_temp, the buffer and the forecast (absent
\* and empty ones included).
C13_TargetAtLeastFloor ==
    (fn.op = "target_inside_temperature" /\ ~fn.raised) =>
        fn.value >= fn.minimum_inside_temp

\* A call without a forecast whose simulation stays at an
\* allowed_min_inside_temp below the floor: the floor is what comes back.
C13_Witness ==
    /\ fn.op = "target_inside_temperature"
    /\ ~fn.raised
    /\ IsNone(fn.forecast)
    /\ fn.cooling_time_buffer = [kind |-> "const", hours |-> 0]
    /\ fn.allowed_min_inside_temp < fn.minimum_inside_temp
    /\ fn.value = fn.minimum_inside_temp

\* C14: get_error returns nothing without an inside reading; otherwise,
\* with raw = target - measured and band h >= 0, it returns raw when
\* raw >= 0, 0 when -h <= raw < 0, and raw + h when raw < -h.
C14_ErrorWithBand ==
    fn.op = "get_error" =>
        LET raw == fn.target_inside_temp - Val(fn.inside_temp)
            h == fn.hyst
        IN  /\ IsNone(fn.inside_temp) => IsNone(fn.error)
            /\ ~IsNone(fn.inside_temp) =>
                   /\ ~IsNone(fn.error)
                   /\ raw >= 0 => Val(fn.error) = raw
                   /\ (-h <= raw /\ raw < 0) => Val(fn.error) = 0
                   /\ raw < -h => Val(fn.error) = raw + h

\* 0.6 degrees above the target with a band of 0.5: an error of -0.1.
C14_Witness ==
    /\ fn.op = "get_error"
    /\ fn.hyst = 20
    /\ fn.inside_temp = Some(fn.target_inside_temp + 24)
    /\ fn.error = Some(-4)

(***************************************************************************)
(* Claims about the Auto cycle, under SpecProcess.                         *)
(***************************************************************************)

\* C15: in a cycle a signal is sent only if the computed command differs
\* from the last sent one or nothing was sent yet; a computed off that
\* differs from the last sent command is neither sent nor stored unless
\* more than 3 hours have passed since heating started, and then it is
\* sent; a change to a non-off command is sent in the same cycle.
C15_SendOnChange ==
    (proc.op = "run" /\ ~proc.raised) =>
        LET next == Val(proc.next_command)
            last == proc.last_command_before
            differs == ~IsNone(last) /\ Val(last) # next
        IN  /\ proc.sent => (IsNone(last) \/ differs)
            /\ proc.sent => auto.last_command = Some(next)
            /\ ~proc.sent => auto.last_command = last
            /\ (differs /\ next = 0 /\ proc.seconds_since_heating_start <= 6)   \* 3 hours
                   => ~proc.sent
            /\ (differs /\ next = 0 /\ proc.seconds_since_heating_start > 6)
                   => proc.sent
            /\ (differs /\ next # 0) => proc.sent

\* Heating was sent, more than 3 hours went by, and the off the cycle
\* computes is sent.
C15_Witness ==
    /\ proc.op = "run"
    /\ ~proc.raised
    /\ proc.next_command = Some(0)
    /\ ~IsNone(proc.last_command_before)
    /\ Val(proc.last_command_before) > 0
    /\ proc.seconds_since_heating_start = 7
    /\ proc.sent
    /\ auto.last_command = Some(0)

\* The conditions of the freeze protection in the cycle just run: a valid
\* outside reading below 1 degree and below the temperature that gives 70%
\* relative humidity at the dew point, after a heating command was sent.
C16_Freezing ==
    /\ proc.valid_outside
    /\ proc.outside_temp < 40                     \* 1 degree
    /\ ~IsNone(proc.dew_point)
    /\ proc.outside_temp < estimate_temperature_with_rh(proc.dew_point, 700).value
    /\ ~IsNone(proc.last_command_before)
    /\ Val(proc.last_command_before) # 0

\* C16: when the freeze conditions all hold, process returns at least
\* heat8; when any of them fails, process returns the command of
\* get_next_command unchanged.
C16_FreezeOverride ==
    proc.op = "run" =>
        IF C16_Freezing
        THEN ~IsNone(proc.next_command) /\ Val(proc.next_command) >= 8
        ELSE ~IsNone(proc.next_command) /\ proc.next_command = proc.command

\* C16 on the cycles in which process returns.
C16_FreezeOverrideWhenReturning ==
    (proc.op = "run" /\ ~proc.raised) =>
        IF C16_Freezing
        THEN Val(proc.next_command) >= 8
        ELSE proc.next_command = proc.command

\* The cycle C16 fails on: the last sent command is off and there is no dew
\* point, so the override does not apply, and process returns no command.
C16_Witness ==
    /\ proc.op = "run"
    /\ ~C16_Freezing
    /\ proc.valid_outside
    /\ proc.outside_temp < 40
    /\ proc.last_command_before = Some(0)
    /\ IsNone(proc.dew_point)
    /\ IsNone(proc.next_command)

\* The override at work: get_next_command gave off and process returns
\* heat8.
C16_Forced ==
    /\ proc.op = "run"
    /\ C16_Freezing
    /\ proc.command = Some(0)
    /\ proc.next_command = Some(8)

\* The level for a controller output: the lowest level at or above it, the
\* highest level when the output is above them all.
C17_Level(value) ==
    IF \E l \in CommandLevels : l * 100 * value.den >= value.num
    THEN CHOOSE l \in CommandLevels :
             /\ l * 100 * value.den >= value.num
             /\ \A k \in CommandLevels : k * 100 * value.den >= value.num => l <= k
    ELSE 24

\* The level of the quadratic heuristic 3 + 0.03 d^2 + 0.2 d on
\* d = |outside - target|, held to [8, 24].
C17_Heuristic ==
    LET d == Abs(fn.outside_temp - fn.target_inside_temp)
        control == 300 * 1600 + 3 * d * d + 20 * 40 * d
    IN  C17_Level([num |-> Max2(Min2(control, 2400 * 1600), 800 * 1600), den |-> 1600])

\* It is summer and the outside estimate is unreliable.
C17_SummerBlind == fn.valid_time /\ fn.in_summer /\ ~fn.valid_outside

\* C17 as stated: with an indoor reading the command is derived from the
\* controller output; without one it is off exactly when it is summer and
\* the outside estimate is unreliable, and the heuristic's command in every
\* other case.
C17_OffOnlyInBlindSummer ==
    fn.op = "get_next_command" =>
        IF ~IsNone(fn.inside_temp)
        THEN fn.command = C17_Level(fn.target_from_controller)
        ELSE IF C17_SummerBlind THEN fn.command = 0
        ELSE fn.command = C17_Heuristic

\* C17 amended: without an indoor reading the command is off when it is
\* summer and the outside estimate is unreliable and also when the outside
\* reading is valid and not below the target; it is the heuristic's command
\* otherwise.
C17_OffWhenWarmOutside ==
    fn.op = "get_next_command" =>
        IF ~IsNone(fn.inside_temp)
        THEN fn.command = C17_Level(fn.target_from_controller)
        ELSE IF C17_SummerBlind
                 \/ (fn.valid_outside /\ fn.outside_temp >= fn.target_inside_temp)
        THEN fn.command = 0
        ELSE fn.command = C17_Heuristic

\* No indoor reading, not summer, a valid outside reading above the target:
\* the command is off where the heuristic gives a heating level.
C17_Witness ==
    /\ fn.op = "get_next_command"
    /\ IsNone(fn.inside_temp)
    /\ ~fn.in_summer
    /\ fn.valid_outside
    /\ fn.outside_temp > fn.target_inside_temp
    /\ fn.command = 0
    /\ C17_Heuristic >= 8

\* The outdoor sources whose reading get_temp accepts: a temperature
\* stamped less than 60 minutes from now.
C18_Accepted ==
    {i \in DOMAIN fn.results :
        /\ fn.results[i] # None
        /\ ~IsNone(Val(fn.results[i]).temp)
        /\ Abs(fn.t - Val(Val(fn.results[i]).ts)) < 2}

\* C18: with no accepted outdoor reading get_outside returns valid_outside
\* false and, stamped now, the forecast mean if there is one (a mean of zero
\* included) and -10 degrees otherwise; with an accepted reading it returns
\* the fused reading and valid_outside true.
C18_OutsideFallback ==
    fn.op = "get_outside" =>
        IF C18_Accepted = {}
        THEN /\ ~fn.valid_outside
             /\ fn.outside.ts = fn.t
             /\ fn.outside.temp = (IF fn.mean_forecast = None THEN -400
                                   ELSE Val(fn.mean_forecast))
        ELSE /\ fn.valid_outside
             /\ Some(fn.outside.temp) = fn.fused.temp
             /\ Some(fn.outside.ts) = fn.fused.ts
             /\ \E i \in C18_Accepted : Val(Val(fn.results[i]).temp) <= fn.outside.temp
             /\ \E i \in C18_Accepted : Val(Val(fn.results[i]).temp) >= fn.outside.temp

\* Every source failed or was stale, one of them stale, and the forecast
\* mean of zero degrees is the outside temperature.
C18_Witness ==
    /\ fn.op = "get_outside"
    /\ C18_Accepted = {}
    /\ \E i \in DOMAIN fn.results :
           fn.results[i] # None /\ ~IsNone(Val(fn.results[i]).temp)
    /\ fn.mean_forecast = Some(0)
    /\ fn.outside = TempTs(0, fn.t)
    /\ ~fn.valid_outside

(***************************************************************************)
(* Claims about overlapping source calls, under SpecFusion.                *)
(***************************************************************************)

\* C19: the fused result of get_temp and the cache afterwards are those of
\* calling the functions one after the other in list order, whatever the
\* order in which the functions were invoked and completed.
C19_OrderIndependent ==
    fn.op = "fused" =>
        LET seq == Sequential(fn.start, fn.f, Functions, <<>>, fn.t) IN
            /\ fn.fused = Some(get_temp(seq.results, None, fn.t))
            /\ cache = seq.cache

\* Both functions were fetched, the second of the list completed first with
\* a different reading, both readings were stored and fused.
C19_Witness ==
    /\ fn.op = "fused"
    /\ fn.order = <<"receive_inside_temperature", "receive_fmi_temperature">>
    /\ fn.f["receive_fmi_temperature"].kind = "pair"
    /\ fn.f["receive_inside_temperature"].kind = "pair"
    /\ fn.results[1] # fn.results[2]
    /\ cache["fmi"] # fn.start["fmi"]
    /\ cache["inside"] # fn.start["inside"]
    /\ Val(fn.fused).temp = Some(11)

(***************************************************************************)
(* Claims about the status strings of a cycle, under SpecProcess.          *)
(***************************************************************************)

\* The positions of the entry e in the strings the cycle collected.
C21_At(e) == {i \in DOMAIN proc.extra_info : proc.extra_info[i] = e}

\* Entry a occurs once, entry b occurs once, and a comes before b.
C21_Before(a, b) ==
    /\ Cardinality(C21_At(a)) = 1
    /\ Cardinality(C21_At(b)) = 1
    /\ \A i \in C21_At(a) : \A j \in C21_At(b) : i < j

\* The status is the last entry process appends: run adds one entry, the
\* command actually in force, after it.
C21_StatusLast ==
    /\ C21_At("Status") = {Len(proc.extra_info) - 1}
    /\ C21_At("Actual last command") = {Len(proc.extra_info)}

\* C21 as stated: the strings process returns hold the buffer hours, then
\* the forecast mean, then the target temperature, then the controller
\* terms, then the status, the status being the last entry of process.
C21_BufferThenForecast ==
    (proc.op = "run" /\ ~proc.raised) =>
        /\ C21_Before("Buffer", "Forecast 24 h mean")
        /\ C21_Before("Forecast 24 h mean", "Target inside temperature")
        /\ C21_Before("Target inside temperature", "Controller")
        /\ C21_Before("Controller", "Status")
        /\ C21_StatusLast

\* C21 amended: the forecast mean comes first, then the buffer hours, then
\* the target temperature, the controller terms and the status, the status
\* being the last entry of process.
C21_ForecastThenBuffer ==
    (proc.op = "run" /\ ~proc.raised) =>
        /\ C21_Before("Forecast 24 h mean", "Buffer")
        /\ C21_Before("Buffer", "Target inside temperature")
        /\ C21_Before("Target inside temperature", "Controller")
        /\ C21_Before("Controller", "Status")
        /\ C21_StatusLast

\* A cycle that logs every optional entry too: the stand-in outside
\* temperature, the 80% humidity floor and the forced heating.
C21_Witness ==
    /\ proc.op = "run"
    /\ ~proc.raised
    /\ C21_At("Temp with 80% RH") # {}
    /\ C21_At("Forcing heating") # {}
    /\ proc.extra_info[1] = "Forecast 24 h mean"
    /\ proc.extra_info[Len(proc.extra_info) - 1] = "Status"

(***************************************************************************)
(* Claims about the backward simulation, under SpecSimulation.             *)
(***************************************************************************)

\* C22: after every step of the pre-forecast phase and of the forecast
\* phase iteration_inside_temp is at least allowed_min_inside_temp.
C22_NeverBelowAllowed ==
    fn.op \in {"while", "for", "returned"} =>
        fn.iteration_inside_temp >= fn.allowed_min_inside_temp

\* A step whose drop would have taken the temperature below the allowed
\* minimum: it is warmer outside than inside, and the temperature is held
\* at the minimum; and a doubled step in the cold that raised it.
C22_Witness ==
    /\ fn.op \in {"while", "for"}
    /\ fn.step \in {"while", "for"}
    /\ fn.hours > 0
    /\ \/ /\ fn.outside > fn.allowed_min_inside_temp
          /\ fn.iteration_inside_temp = fn.allowed_min_inside_temp
       \/ /\ fn.outside <= -680
          /\ fn.iteration_inside_temp > fn.allowed_min_inside_temp

\* What C23 says of the pre-forecast phase, with ts the time of the point
\* the phase works towards: a step is taken only while iteration_ts is
\* later than ts, goes back by more than nothing and at most an hour, and
\* uses the mean of reversed_forecast as the outside temperature; the
\* forecast phase is entered only with iteration_ts no later than ts.
C23_PhaseUpTo(ts) ==
    /\ fn.step = "while" =>
          /\ fn.before_ts > ts
          /\ fn.hours > 0
          /\ fn.hours <= 2                                  \* one hour
          /\ fn.iteration_ts = fn.before_ts - fn.hours
          /\ fn.outside = SumTemps(fn.reversed_forecast) \div Len(fn.reversed_forecast)
    /\ fn.step = "enter" => fn.iteration_ts <= ts

\* C23 as stated: the pre-forecast phase keeps stepping for as long as
\* iteration_ts is later than the earliest forecast point, and the forecast
\* phase begins only once it is no longer later than that point.
C23_UntilEarliestPoint ==
    fn.op \in {"while", "for"} =>
        C23_PhaseUpTo(fn.reversed_forecast[Len(fn.reversed_forecast)].ts)

\* C23 amended: the point is the latest one, reversed_forecast[0].
C23_UntilLatestPoint ==
    fn.op \in {"while", "for"} =>
        C23_PhaseUpTo(fn.reversed_forecast[1].ts)

\* The forecast phase begins at the latest of three points, after a
\* pre-forecast phase that ended with a step of half an hour.
C23_Witness ==
    /\ fn.op = "for"
    /\ fn.step = "enter"
    /\ Len(fn.reversed_forecast) = 3
    /\ fn.hours = 1
    /\ fn.iteration_ts = fn.reversed_forecast[1].ts
    /\ fn.iteration_ts > fn.reversed_forecast[3].ts

(***************************************************************************)
(* Termination of the backward simulation, under SpecSimulationLive.       *)
(***************************************************************************)

\* The points of q are strictly decreasing in time.
C24_Decreasing(q) == \A i \in DOMAIN q : \A j \in DOMAIN q : i < j => q[i].ts > q[j].ts

\* What C24 says of every step: reversed_forecast is strictly decreasing in
\* time; a pre-forecast iteration finds hours_to_forecast_start >= 0 and
\* takes iteration_ts back by more than nothing and at most an hour; the
\* forecast phase finds this_iteration_hours >= 0 and visits points in
\* strictly decreasing time order, none of them twice.
C24_Steps ==
    fn.op \in {"while", "for", "returned"} =>
        /\ C24_Decreasing(fn.reversed_forecast)
        /\ fn.step = "while" =>
              /\ fn.before_ts - fn.reversed_forecast[1].ts >= 0
              /\ fn.hours > 0
              /\ fn.hours <= 2
              /\ fn.iteration_ts = fn.before_ts - fn.hours
        /\ fn.step = "for" => fn.hours >= 0 /\ fn.iteration_ts <= fn.before_ts
        /\ C24_Decreasing(fn.visited)

\* C24: the backward stepping keeps to C24_Steps and terminates: a call
\* that has begun stepping returns.
C24_Terminates ==
    /\ []C24_Steps
    /\ (fn.op \in {"while", "for"}) ~> (fn.op = "returned")

\* A call that returned after a pre-forecast phase of 20 hours and a
\* forecast phase over the outside reading and the three forecast points
\* that a forecast out of time order and with a duplicate leaves.
C24_Witness ==
    /\ fn.op = "returned"
    /\ fn.buffer_hours = 40
    /\ Len(fn.visited) = 4
    /\ fn.visited = fn.reversed_forecast

(***************************************************************************)
(* Claims about the buffer, under SpecFunctions.                           *)
(***************************************************************************)

\* The temperature a pass feeds the buffer function for a buffer of b
\* ticks: the mean of the forecast points of the first b \div 2 hours, or
\* the outside temperature where there is no such mean.
C25_Fed(b) ==
    LET temps == IF fn.forecast = None THEN <<>> ELSE Val(fn.forecast).temps
        n == Min2(b \div 2, Len(temps))
    IN  IF n = 0 THEN fn.outside_temp
        ELSE SumTemps(SubSeq(temps, 1, n)) \div n

RECURSIVE C25_B(_)
\* b0 = 20 hours, b(i+1) = f(what pass i feeds it).
C25_B(i) ==
    IF i = 0 THEN 40
    ELSE BufferFunction(fn.cooling_time_buffer.name, C25_Fed(C25_B(i - 1)))

\* C25: a constant buffer is returned unchanged; a buffer function f is
\* invoked exactly 3 times and b3 is returned.
C25_ThreePasses ==
    fn.op = "cooling_time_buffer_resolved" =>
        IF fn.cooling_time_buffer.kind = "const"
        THEN ~fn.raised /\ fn.hours = fn.cooling_time_buffer.hours /\ fn.calls = 0
        ELSE ~fn.raised /\ fn.calls = 3 /\ fn.hours = C25_B(3)

\* C25 on the calls that return.
C25_ThreePassesWhenReturning ==
    (fn.op = "cooling_time_buffer_resolved" /\ ~fn.raised) =>
        IF fn.cooling_time_buffer.kind = "const"
        THEN fn.hours = fn.cooling_time_buffer.hours /\ fn.calls = 0
        ELSE fn.calls = 3 /\ fn.hours = C25_B(3)

\* The call C25 fails on: the first pass gives a buffer under an hour, the
\* forecast has points, and the second pass raises after one invocation.
C25_Witness ==
    /\ fn.op = "cooling_time_buffer_resolved"
    /\ fn.raised
    /\ fn.calls = 1
    /\ C25_B(1) < 2
    /\ fn.forecast # None

\* Three passes that did not settle: 1 hour, 7 hours, 1 hour.
C25_Unsettled ==
    /\ fn.op = "cooling_time_buffer_resolved"
    /\ ~fn.raised
    /\ fn.calls = 3
    /\ C25_B(1) = 2
    /\ C25_B(2) = 14
    /\ fn.hours = 2

(***************************************************************************)
(* Further claims about the controller, under SpecCtrl.                    *)
(***************************************************************************)

\* The update just made was called with an absent error.
C26_AbsentError ==
    /\ upd.op = "update"
    /\ ~IsNone(lastUpdate)
    /\ Val(lastUpdate).absent

\* C26: an update with an absent error leaves past_errors as it was, does
\* not accumulate, and returns the clamped integral: the proportional and
\* the derivative term contribute nothing.
C26_AbsentErrorContributesNothing ==
    C26_AbsentError =>
        /\ controller.past_errors = upd.past_errors
        /\ upd.acc = upd.pre
        /\ upd.output.num = controller.integral * upd.output.den

\* What does hold of such an update: the proportional term alone is zero,
\* and the output is the clamped integral plus kd times the slope of the
\* samples kept from earlier updates.
C26_SlopeStillCounts ==
    C26_AbsentError =>
        /\ controller.past_errors = upd.past_errors
        /\ upd.acc = upd.pre
        /\ upd.slope = Controller_past_error_slope(upd.past_errors)
        /\ upd.output.num =
               controller.integral * upd.output.den + 1 * upd.slope.num   \* kd = 1
        /\ upd.output.den = upd.slope.den

\* The update C26 fails on: two earlier samples half an hour or more apart
\* show a trend, and the update with an absent error returns the integral
\* plus the derivative term.
C26_Witness ==
    /\ C26_AbsentError
    /\ Len(upd.past_errors) = 2
    /\ upd.slope.num # 0
    /\ upd.output.num # controller.integral * upd.output.den

(***************************************************************************)
(* The controller over the Auto cycles, under SpecProcess.                 *)
(***************************************************************************)

\* The cycle just run called Controller.update.
C27_Updated ==
    /\ proc.op = "run"
    /\ ~proc.raised \/ proc.where = "freeze protection"

\* No sample of past_errors is older than 3 hours, and the samples are in
\* the order of their times.
C27_Window ==
    /\ \A i \in DOMAIN controller.past_errors :
           controller.past_errors[i][1] >= now - 6                   \* 3 hours
    /\ \A i \in DOMAIN controller.past_errors : \A j \in DOMAIN controller.past_errors :
           i < j => controller.past_errors[i][1] <= controller.past_errors[j][1]

\* C27: after every call of Controller.update, whatever its arguments,
\* past_errors holds no sample older than 3 hours before the call, and the
\* samples kept are in insertion order.
C27_PrunedOnEveryUpdate == C27_Updated => C27_Window

\* C27 for the updates called with a present error.
C27_PrunedWhenErrorPresent ==
    (C27_Updated /\ ~Val(lastUpdate).absent) => C27_Window

\* The update C27 fails on: a sample was recorded, three and a half hours
\* later update is called with an absent error, and the sample is still
\* there.
C27_Witness ==
    /\ C27_Updated
    /\ Val(lastUpdate).absent
    /\ controller.past_errors # <<>>
    /\ controller.past_errors[1][1] < now - 6

\* The step just taken is a cycle that called Controller.update.
C28_UpdateCalled ==
    /\ proc'.op = "run"
    /\ ~proc'.raised \/ proc'.where = "freeze protection"

\* C28 as stated: over runs and clears every field of the controller
\* changes only inside Controller.update: a step that does not call update
\* leaves the controller as it was.
C28_OnlyInsideUpdate ==
    [][~C28_UpdateCalled => controller' = controller]_vars

\* C28 amended: outside update the controller changes only through its
\* other methods: clear resets the integral, the update time and the
\* samples and keeps the limits; a cycle that stops before update may have
\* emptied the samples (a payload) and restored the stored integral into a
\* reset controller (load_state), and nothing else; the passing of time
\* changes nothing.
C28_OnlyControllerMethods ==
    [][/\ proc'.op = "tick" => controller' = controller
       /\ proc'.op = "clear" =>
              controller' = [controller EXCEPT !.integral = 0,
                                               !.current_time = None,
                                               !.past_errors = <<>>]
       /\ (proc'.op = "run" /\ ~C28_UpdateCalled) =>
              /\ controller'.i_low_limit = controller.i_low_limit
              /\ controller'.i_high_limit = controller.i_high_limit
              /\ controller'.current_time = controller.current_time
              /\ controller'.past_errors \in {controller.past_errors, <<>>}
              /\ \/ controller'.integral = controller.integral
                 \/ /\ controller.current_time = None
                    /\ Some(controller'.integral) = auto.saved_state]_vars

\* Auto.clear after a cycle that updated the controller and stored its
\* integral: the integral is zero again, the update time and the samples
\* are gone, the limits of the cycle are still set.
C28_Witness ==
    /\ proc.op = "clear"
    /\ proc.n = 1
    /\ ~IsNone(auto.saved_state)
    /\ Val(auto.saved_state) # 0
    /\ controller.integral = 0
    /\ controller.current_time = None
    /\ controller.past_errors = <<>>
    /\ controller.i_high_limit # 0

\* C29: Auto.clear leaves no last command, the passing of time does not
\* bring one back, and a cycle that finds none sends the command it
\* computes, off included and however long heating has lasted, and makes
\* it the last command.
C29_SendsAfterClear ==
    /\ [](proc.op = "clear" => auto.last_command = None)
    /\ [][proc'.op = "tick" => auto'.last_command = auto.last_command]_vars
    /\ []((proc.op = "run" /\ ~proc.raised /\ proc.last_command_before = None) =>
              /\ proc.sent
              /\ auto.last_command = proc.next_command)

\* The second cycle found no last command although the first one sent one
\* (with a constant buffer every first cycle does): Auto.clear came in
\* between; heating had started after the program did and less than 3
\* hours ago, and the cycle computes off and sends it.
C29_Witness ==
    /\ proc.op = "run"
    /\ proc.n = 2
    /\ auto.cooling_time_buffer.kind = "const"
    /\ ~proc.raised
    /\ proc.last_command_before = None
    /\ proc.next_command = Some(Commands_off)
    /\ auto.heating_start_time > 0
    /\ proc.seconds_since_heating_start <= min_time_heating
    /\ proc.sent
    /\ auto.last_command = Some(Commands_off)

\* C30: heating_start_time changes only in a cycle that sends a heating
\* command when the last command was none or off, and is then the time of
\* that cycle; a switch between heating levels leaves it alone.  With a
\* heating command last sent, a cycle that computes off sends nothing and
\* keeps last_command up to 3 hours after heating_start_time, and sends off
\* once more than 3 hours have passed.
C30_Heating(command) == command # None /\ command # Some(Commands_off)

C30_OffAfterHeating ==
    /\ proc.op = "run"
    /\ ~proc.raised
    /\ C30_Heating(proc.last_command_before)
    /\ proc.next_command = Some(Commands_off)

C30_HeatingStart ==
    /\ [][auto'.heating_start_time # auto.heating_start_time =>
              /\ proc'.op = "run"
              /\ proc'.sent
              /\ ~C30_Heating(proc'.last_command_before)
              /\ C30_Heating(proc'.next_command)
              /\ auto'.heating_start_time = now]_vars
    /\ []((proc.op = "run" /\ proc.sent /\ C30_Heating(proc.next_command)) =>
              IF C30_Heating(proc.last_command_before)
              THEN proc.seconds_since_heating_start = now - auto.heating_start_time
              ELSE auto.heating_start_time = now)
    /\ []((C30_OffAfterHeating
             /\ proc.seconds_since_heating_start <= min_time_heating) =>
              /\ ~proc.sent
              /\ auto.last_command = proc.last_command_before)
    /\ []((C30_OffAfterHeating
             /\ proc.seconds_since_heating_start > min_time_heating) =>
              /\ proc.sent
              /\ auto.last_command = Some(Commands_off))

\* Heating was started by the first cycle; the second one runs 3.5 hours
\* after heating_start_time, computes off and sends it.
C30_Witness ==
    /\ C30_OffAfterHeating
    /\ proc.n = 2
    /\ now - auto.heating_start_time = min_time_heating + 1
    /\ proc.seconds_since_heating_start = min_time_heating + 1
    /\ proc.sent
    /\ auto.last_command = Some(Commands_off)
====
